---- MODULE Spec2Model ----
(***************************************************************************)
(* Verification model of the Office Document Translator                    *)
(* (src/translator.py): the eligibility filter, the translation batcher,   *)
(* the document processors and the directory driver.                       *)
(*                                                                         *)
(* Texts are sequences of one-character strings. The delimiter "|||" is    *)
(* kept as three "|" characters, so that str.split is modelled by what it  *)
(* does.                                                                   *)
(***************************************************************************)
EXTENDS Integers, Sequences, FiniteSets, TLC

VARIABLES
    \* ---- should_translate ------------------------------------------------
    st_text,         \* argument of should_translate
    st_pc,           \* "call" | "done" | "idle"
    st_result,       \* its return value (meaningful once st_pc = "done")
    \* ---- translate_batch --------------------------------------------------
    texts,           \* argument of translate_batch
    tb_pc,           \* "entry" | "loop" | "done" | "idle"
    retries,         \* local variable retries
    tb_log,          \* outcome of each api_client call so far: "fail" | "ok"
    tb_resp,         \* the response object of the latest call that returned
    tb_sleeps,       \* arguments of time.sleep so far, in order
    tb_result,       \* return value of translate_batch (once tb_pc = "done")
    \* ---- one document through one processor -----------------------------
    proc,            \* "excel" | "word" | "ppt_basic" | "ppt_hybrid" | "idle"
    progress,        \* a progress display was passed in
    comAvail,        \* HAS_COM and os.name == 'nt'
    doc_in,          \* content of the input file
    d_pc,            \* position inside the processor
    hdoc,            \* content of the handle the fragments were read from
    hout,            \* content of the handle _apply_translations loads
    frags,           \* extracted fragments, in extraction order
    cur,             \* index in frags of the first fragment not yet batched
    sent,            \* the text lists handed to translate_batch, in order
    wlog,            \* location references a write was issued to
    saved,           \* the output file: [done, content]
    d_result,        \* "running" | "path" | "none" | "raised"
    faults,          \* exceptions raised so far by the environment
    res              \* state of each external handle: "none" | "open" | "closed"

filterVars == <<st_text, st_pc, st_result>>
batchVars == <<texts, tb_pc, retries, tb_log, tb_resp, tb_sleeps, tb_result>>
docVars == <<proc, progress, comAvail, doc_in, d_pc, hdoc, hout, frags, cur,
             sent, wlog, saved, d_result, faults, res>>
\* process_directory: the enumerated files, the loop position, the two result
\* lists, and the environment (rich installed, GEMINI_API_KEY set)
VARIABLES all_files, file_idx, successful_files, failed_files, dir_pc,
          HAS_RICH, api_key
dirVars == <<all_files, file_idx, successful_files, failed_files, dir_pc,
             HAS_RICH, api_key>>
\* main: the parsed arguments, what the file system and the installation
\* look like, and the exit code
VARIABLES m_pc, args_mode, target_exists, deps_ok, file_kind, exit_code
mainVars == <<m_pc, args_mode, target_exists, deps_ok, file_kind, exit_code>>
\* output paths: how the run was started and the folder the user configured,
\* the folder and names of the input files, the wall clock, and the files
\* written so far
VARIABLES entry, output_dir_arg, in_dir, listing, p_idx, clock, written
pathVars == <<entry, output_dir_arg, in_dir, listing, p_idx, clock, written>>
\* the GUI: the Start button, the worker threads started so far, the reset
\* callbacks queued with root.after, the clicks made, and whether the
\* translator module could be imported
VARIABLES translate_btn, threads, after_queue, clicks, TRANSLATOR_AVAILABLE
guiVars == <<translate_btn, threads, after_queue, clicks, TRANSLATOR_AVAILABLE>>
\* batching: the processor, the number of fragments on each of two sheets
\* (parts), the next fragment, and the calls made, each as the slice it carries
VARIABLES sl_proc, sl_sheets, sl_cur, sl_calls
sliceVars == <<sl_proc, sl_sheets, sl_cur, sl_calls>>
\* process_presentation: the position in the engine loop, the index of the next
\* engine, one record per engine tried, the result, and the module flags
VARIABLES e_pc, e_idx, e_log, e_result, HAS_COM, os_name, HAS_LXML
engVars == <<e_pc, e_idx, e_log, e_result, HAS_COM, os_name, HAS_LXML>>
\* the enumeration of process_directory: the platform, the files of the folder,
\* the globbed list (indices into folder), the loop index, the files handed to
\* process_file, the two result lists and the position
VARIABLES g_os, folder, g_files, g_idx, g_opened, g_successful, g_failed, g_pc
enumVars == <<g_os, folder, g_files, g_idx, g_opened, g_successful, g_failed, g_pc>>
\* the API key dialog: the text of the entry, the .env file, the position, what
\* check_api_status last reported, and how start_translation went on
VARIABLES k_entry, env_file, k_pc, api_status, k_start
keyVars == <<k_entry, env_file, k_pc, api_status, k_start>>
vars == <<filterVars, batchVars, docVars, dirVars, mainVars, pathVars, guiVars, sliceVars, engVars, enumVars, keyVars>>

----------------------------------------------------------------------------
(* Bounds *)

MaxStrLen == 3        \* longest argument of should_translate
MaxTexts == 3         \* longest list handed to translate_batch
MaxContentLen == 7    \* longest reply content
MaxShapes == 2        \* containers (sheets, parts, shapes) in a document
MaxFaults == 1        \* exceptions the environment raises in one run
MaxFiles == 2         \* files the directory scan finds
MaxNameLen == 2       \* longest base name drawn for an input file
MaxClock == 1         \* seconds the wall clock can advance during a run
MaxClicks == 3        \* clicks on the Start button
MaxCalls == 2         \* calls to the translation capability by one worker
MaxFrags == 52        \* eligible fragments in a document of the batching model

(* Program constants *)

max_retries == 3
delay_seconds == 2
batch_size == 50

----------------------------------------------------------------------------
(* Generic helpers *)

RECURSIVE SeqsUpTo(_, _)
SeqsUpTo(S, n) ==
    IF n = 0 THEN {<<>>}
    ELSE LET shorter == SeqsUpTo(S, n - 1)
         IN shorter \cup {Append(s, x) : s \in {t \in shorter : Len(t) = n - 1}, x \in S}

Min(a, b) == IF a < b THEN a ELSE b

\* the elements of a set of numbers in increasing order
RECURSIVE SortSet(_)
SortSet(S) ==
    IF S = {} THEN <<>>
    ELSE LET m == CHOOSE x \in S : \A y \in S : x <= y
         IN  <<m>> \o SortSet(S \ {m})

----------------------------------------------------------------------------
(* Characters *)

Digits == {"0", "1", "2", "3", "4", "5", "6", "7", "8", "9"}
Whitespace == {" ", "\n", "\t"}
NumFmtChars == Digits \cup Whitespace \cup {",", ".", "-"}

FilterAlphabet == {"a", "1", " ", "=", "-"}

----------------------------------------------------------------------------
(* clean_text: ' '.join(text.split()) then strip() *)

RECURSIVE LStrip(_)
LStrip(s) ==
    IF s = <<>> THEN <<>>
    ELSE IF Head(s) \in Whitespace THEN LStrip(Tail(s)) ELSE s

RECURSIVE RStrip(_)
RStrip(s) ==
    IF s = <<>> THEN <<>>
    ELSE IF s[Len(s)] \in Whitespace THEN RStrip(SubSeq(s, 1, Len(s) - 1)) ELSE s

\* str.strip()
Strip(s) == RStrip(LStrip(s))

\* s starts with a non-blank character: the words of s joined by one blank
RECURSIVE JoinWords(_)
JoinWords(s) ==
    IF s = <<>> THEN <<>>
    ELSE IF Head(s) \in Whitespace
         THEN LET r == LStrip(s)
              IN IF r = <<>> THEN <<>> ELSE <<" ">> \o JoinWords(r)
         ELSE <<Head(s)>> \o JoinWords(Tail(s))

clean_text(text) == Strip(JoinWords(LStrip(text)))

\* re.match(r'^[\d\s,.-]+$', text)
MatchesNumeric(text) ==
    /\ text # <<>>
    /\ \A i \in 1..Len(text) : text[i] \in NumFmtChars

StartsWithEq(text) == text # <<>> /\ Head(text) = "="

\* mutant: the formula test is missing
should_translate_noformula(text) ==
    LET t == clean_text(text)
    IN  IF t = <<>> \/ Len(t) < 2 THEN FALSE
        ELSE IF MatchesNumeric(t) THEN FALSE
        ELSE TRUE

should_translate(text) ==
    LET t == clean_text(text)
    IN  IF t = <<>> \/ Len(t) < 2 THEN FALSE
        ELSE IF MatchesNumeric(t) THEN FALSE
        ELSE IF StartsWithEq(t) THEN FALSE
        ELSE TRUE

----------------------------------------------------------------------------
(* translate_batch: splitting and reconciling one reply *)

separator == <<"|", "|", "|">>

StartsWith(s, p) == Len(s) >= Len(p) /\ SubSeq(s, 1, Len(p)) = p

\* str.split(separator): left to right, non-overlapping; always >= 1 part
RECURSIVE SplitFrom(_, _)
SplitFrom(s, part) ==
    IF s = <<>> THEN <<part>>
    ELSE IF StartsWith(s, separator)
         THEN <<part>> \o SplitFrom(SubSeq(s, Len(separator) + 1, Len(s)), <<>>)
         ELSE SplitFrom(Tail(s), Append(part, Head(s)))

Split(s) == SplitFrom(s, <<>>)

\* separator.join(parts)
RECURSIVE Join(_, _)
Join(parts, sep) ==
    IF parts = <<>> THEN <<>>
    ELSE IF Len(parts) = 1 THEN parts[1]
    ELSE parts[1] \o sep \o Join(Tail(parts), sep)

\* mutant: extra segments are not cut off
Reconcile_notrunc(translated_parts, txts) ==
    IF Len(translated_parts) < Len(txts)
    THEN translated_parts \o SubSeq(txts, Len(translated_parts) + 1, Len(txts))
    ELSE translated_parts

\* mutant: a reply with the wrong number of segments is thrown away
Reconcile_strict(translated_parts, txts) ==
    IF Len(translated_parts) # Len(txts) THEN txts ELSE translated_parts

\* mutant: missing trailing segments are filled with empty strings
Reconcile_padblank(translated_parts, txts) ==
    IF Len(translated_parts) < Len(txts)
    THEN translated_parts \o [i \in 1..(Len(txts) - Len(translated_parts)) |-> <<>>]
    ELSE SubSeq(translated_parts, 1, Len(txts))

\* lines 447-453: pad with the trailing originals, or cut off the extras
Reconcile(translated_parts, txts) ==
    IF Len(translated_parts) # Len(txts)
    THEN IF Len(translated_parts) < Len(txts)
         THEN translated_parts \o SubSeq(txts, Len(translated_parts) + 1, Len(txts))
         ELSE SubSeq(translated_parts, 1, Len(txts))
    ELSE translated_parts

(* The reply envelope. content is response.choices[0].message.content      *)
(* (<<>> for None or ""), str is str(response), attr is the first of the   *)
(* probed attributes that is a string (<<>> when there is none).           *)
ExtractContent(resp) ==
    IF resp.content # <<>> THEN resp.content
    ELSE IF Strip(resp.str) # <<>> /\ Head(Strip(resp.str)) # "{" THEN Strip(resp.str)
    ELSE IF Strip(resp.attr) # <<>> THEN resp.attr
    ELSE <<>>

ContentAlphabet == {"x", "|"}
Contents == SeqsUpTo(ContentAlphabet, MaxContentLen)
StrReprs == {<<>>, <<"{", "}">>, <<"R">>}
AttrValues == {<<>>, <<"x">>}
Responses == [content : Contents, str : StrReprs, attr : AttrValues]
NoResponse == [content |-> <<>>, str |-> <<>>, attr |-> <<>>]

TextPool == {<<"a">>, <<"b">>}
TextLists == SeqsUpTo(TextPool, MaxTexts)

----------------------------------------------------------------------------
(* Documents. A document is a sequence of containers (the sheets of a      *)
(* workbook, the parts of a Word document, the shapes of a slide); a       *)
(* container holds paragraphs (cells, paragraphs). ph marks a shape with a *)
(* placeholder_format, wa a shape whose TextEffect carries its text.       *)

Hi == <<"H", "i">>
N42 == <<"4", "2">>
SpYo == <<" ", "Y", "o">>

Container(paras, ph, wa) == [paras |-> paras, ph |-> ph, wa |-> wa]

ShapePool ==
    { Container(<<Hi>>, FALSE, FALSE),
      Container(<<N42>>, FALSE, FALSE),
      Container(<<SpYo, Hi>>, FALSE, FALSE),
      Container(<<Hi, N42>>, TRUE, FALSE),
      Container(<<Hi>>, TRUE, TRUE) }

Docs == SeqsUpTo(ShapePool, MaxShapes)

NewLine == <<"\n">>

\* shape.text: the paragraphs joined by a line feed
ShapeText(shape) == Join(shape.paras, NewLine)

\* str.split("\n") as the text setters of python-pptx use it
RECURSIVE SplitLinesFrom(_, _)
SplitLinesFrom(s, line) ==
    IF s = <<>> THEN <<line>>
    ELSE IF Head(s) = "\n" THEN <<line>> \o SplitLinesFrom(Tail(s), <<>>)
    ELSE SplitLinesFrom(Tail(s), Append(line, Head(s)))

SplitLines(s) == SplitLinesFrom(s, <<>>)

\* location references: <<c, p>> is paragraph p of container c, <<c>> is
\* the whole container c
RECURSIVE ParaLocsFrom(_, _)
ParaLocsFrom(doc, c) ==
    IF c > Len(doc) THEN <<>>
    ELSE [p \in 1..Len(doc[c].paras) |-> <<c, p>>] \o ParaLocsFrom(doc, c + 1)

ParaLocs(doc) == ParaLocsFrom(doc, 1)

ShapeLocs(doc) == [c \in 1..Len(doc) |-> <<c>>]

\* the text a location reference resolves to (<<>> when the slot is gone)
SlotText(doc, loc) ==
    IF loc[1] > Len(doc) THEN <<>>
    ELSE IF Len(loc) = 1 THEN ShapeText(doc[loc[1]])
    ELSE IF loc[2] > Len(doc[loc[1]].paras) THEN <<>>
    ELSE doc[loc[1]].paras[loc[2]]

\* the write primitives: cell.value / paragraph.text for <<c, p>>,
\* shape.text for <<c>>
WriteSlot(doc, loc, t) ==
    IF loc[1] > Len(doc) THEN doc
    ELSE IF Len(loc) = 1 THEN [doc EXCEPT ![loc[1]].paras = SplitLines(t)]
    ELSE IF loc[2] > Len(doc[loc[1]].paras) THEN doc
    ELSE [doc EXCEPT ![loc[1]].paras[loc[2]] = t]

Frag(loc, kind, text) ==
    [loc |-> loc, kind |-> kind, text |-> text,
     has_tr |-> FALSE, tr |-> <<>>, wrote |-> FALSE, wfail |-> FALSE]

\* mutant: the eligibility test of the cell scan is missing
ExcelScan_nofilter(doc) ==
    LET locs == SelectSeq(ParaLocs(doc), LAMBDA loc : SlotText(doc, loc) # <<>>)
    IN  [i \in 1..Len(locs) |-> Frag(locs[i], "cell", clean_text(SlotText(doc, locs[i])))]

\* process_excel_file lines 545-552: the cells that pass the filter
ExcelScan(doc) ==
    LET locs == SelectSeq(ParaLocs(doc),
                    LAMBDA loc : SlotText(doc, loc) # <<>> /\ should_translate(SlotText(doc, loc)))
    IN  [i \in 1..Len(locs) |-> Frag(locs[i], "cell", clean_text(SlotText(doc, locs[i])))]

\* process_word_file lines 2146-2214: the paragraphs that pass the filter
WordScan(doc) ==
    LET locs == SelectSeq(ParaLocs(doc),
                    LAMBDA loc : SlotText(doc, loc) # <<>> /\ should_translate(SlotText(doc, loc)))
    IN  [i \in 1..Len(locs) |-> Frag(locs[i], "paragraph", clean_text(SlotText(doc, locs[i])))]

\* process_powerpoint_file_basic lines 1930-1940: the shapes whose whole
\* text passes the filter
BasicScan(doc) ==
    LET locs == SelectSeq(ShapeLocs(doc),
                    LAMBDA loc : SlotText(doc, loc) # <<>> /\ should_translate(SlotText(doc, loc)))
    IN  [i \in 1..Len(locs) |-> Frag(locs[i], "shape", clean_text(SlotText(doc, locs[i])))]

\* _extract_from_shape_enhanced lines 933-981 for shape c: one fragment per
\* non-blank paragraph, then one for the whole shape if it is a placeholder
ShapeElements(doc, c) ==
    LET ps == SelectSeq([p \in 1..Len(doc[c].paras) |-> <<c, p>>],
                  LAMBDA loc : Strip(SlotText(doc, loc)) # <<>>)
        paraFrags == [i \in 1..Len(ps) |->
                        Frag(ps[i], "text_frame_paragraph", Strip(SlotText(doc, ps[i])))]
    IN  IF doc[c].ph /\ Strip(ShapeText(doc[c])) # <<>>
        THEN Append(paraFrags, Frag(<<c>>, "placeholder", Strip(ShapeText(doc[c]))))
        ELSE paraFrags

\* _extract_with_enhanced_pptx lines 899-906: shapes c..Len(doc)
RECURSIVE EnhancedScanFrom(_, _)
EnhancedScanFrom(doc, c) ==
    IF c > Len(doc) THEN <<>>
    ELSE ShapeElements(doc, c) \o EnhancedScanFrom(doc, c + 1)

EnhancedScan(doc) == EnhancedScanFrom(doc, 1)

\* _extract_with_com_automation_only lines 1110-1134: the WordArt text of
\* the first n shapes
ComScan(doc, n) ==
    LET locs == SelectSeq([c \in 1..n |-> <<c>>],
                    LAMBDA loc : /\ doc[loc[1]].wa
                                 /\ Strip(SlotText(doc, loc)) # <<>>
                                 /\ should_translate(Strip(SlotText(doc, loc))))
    IN  [i \in 1..Len(locs) |-> Frag(locs[i], "wordart", Strip(SlotText(doc, locs[i])))]

\* _translate_elements lines 1311-1315: the elements that are translated
Eligible(fs) ==
    SortSet({i \in 1..Len(fs) : fs[i].text # <<>> /\ should_translate(fs[i].text)})

\* _translate_elements lines 1326-1329: translated_text of element i
WithTranslations(fs, elig, result) ==
    [i \in 1..Len(fs) |->
        IF \E j \in 1..Min(Len(elig), Len(result)) : elig[j] = i
        THEN LET j == CHOOSE k \in 1..Len(elig) : elig[k] = i
             IN  [fs[i] EXCEPT !.has_tr = TRUE, !.tr = result[j]]
        ELSE fs[i]]

\* _apply_translations lines 1362-1413: the python-pptx writes; F holds the
\* indices whose write raised
AfterApply(fs, F) ==
    [i \in 1..Len(fs) |->
        IF fs[i].has_tr /\ fs[i].kind \in {"text_frame_paragraph", "placeholder"}
        THEN [fs[i] EXCEPT !.wrote = TRUE, !.wfail = i \in F]
        ELSE fs[i]]

\* _apply_com_updates lines 1455-1474: the COM writes
AfterComUpdate(fs, F) ==
    [i \in 1..Len(fs) |->
        IF fs[i].has_tr /\ fs[i].kind = "wordart"
        THEN [fs[i] EXCEPT !.wrote = TRUE, !.wfail = i \in F]
        ELSE [fs[i] EXCEPT !.wrote = FALSE]]

----------------------------------------------------------------------------
(* The values translate_batch can return for one batch, as SpecBatch       *)
(* establishes them: the batch itself when every attempt failed, or one    *)
(* reply split and reconciled. A reply carries one segment too few, the    *)
(* right number or one too many, and at most one empty segment.            *)

TrOf(t) == <<"J">> \o t

ReplySegs(batch, k, e) ==
    [i \in 1..k |-> IF i = e THEN <<>>
                    ELSE IF i <= Len(batch) THEN TrOf(batch[i]) ELSE <<"J">>]

DocReplies(batch) ==
    { Join(ReplySegs(batch, k, e), separator) :
        k \in {Len(batch) - 1, Len(batch), Len(batch) + 1} \ {0}, e \in 0..(Len(batch) + 1) }

translate_batch(batch) ==
    IF batch = <<>> THEN {<<>>}
    ELSE {batch} \cup
         { Reconcile(Split(c), batch) : c \in DocReplies(batch) \ {<<>>} }

----------------------------------------------------------------------------
(* Batches and write-back *)

\* apply the writes of fragments fs[i], i in order, that were issued and
\* did not fail
RECURSIVE ApplyWrites(_, _, _)
ApplyWrites(doc, fs, i) ==
    IF i > Len(fs) THEN doc
    ELSE ApplyWrites(IF fs[i].wrote /\ ~fs[i].wfail
                     THEN WriteSlot(doc, fs[i].loc, fs[i].tr) ELSE doc,
                     fs, i + 1)

\* the last index of the batch that starts at fragment c: at most batch_size
\* fragments; a sheet's fragments never share a batch with another sheet's
BatchEnd(fs, c, perSheet) ==
    LET limit == Min(Len(fs), c + batch_size - 1)
        same == {i \in c..limit : \A j \in c..i : fs[j].loc[1] = fs[c].loc[1]}
    IN  IF perSheet
        THEN CHOOSE i \in same : \A j \in same : j <= i
        ELSE limit

\* mutant: the first write that raises ends the write loop of the batch
AfterBatch_abort(fs, c, e, result, truthy, F) ==
    [i \in 1..Len(fs) |->
        IF i < c \/ i > e THEN fs[i]
        ELSE LET j == i - c + 1
                 issued == /\ j <= Len(result) /\ (truthy => result[j] # <<>>)
                           /\ \A k \in F : k >= i
             IN  [fs[i] EXCEPT !.has_tr = j <= Len(result),
                               !.tr = IF j <= Len(result) THEN result[j] ELSE <<>>,
                               !.wrote = issued,
                               !.wfail = issued /\ i \in F]]

\* fragments c..e after translate_batch returned result and the write loop
\* ran; truthy says whether an empty translation is skipped; F holds the
\* indices whose write raised
AfterBatch(fs, c, e, result, truthy, F) ==
    [i \in 1..Len(fs) |->
        IF i < c \/ i > e THEN fs[i]
        ELSE LET j == i - c + 1
                 issued == j <= Len(result) /\ (truthy => result[j] # <<>>)
             IN  [fs[i] EXCEPT !.has_tr = j <= Len(result),
                               !.tr = IF j <= Len(result) THEN result[j] ELSE <<>>,
                               !.wrote = issued,
                               !.wfail = issued /\ i \in F]]

NoRes == [app |-> "none", wb |-> "none",
          com_x_app |-> "none", com_x_pres |-> "none",
          com_u_app |-> "none", com_u_pres |-> "none"]

NotSaved == [done |-> FALSE, content |-> <<>>]

----------------------------------------------------------------------------
(* Idle values of each group of variables *)

FilterIdle == st_text = <<>> /\ st_pc = "idle" /\ st_result = FALSE

BatchIdle ==
    /\ texts = <<>> /\ tb_pc = "idle" /\ retries = 0 /\ tb_log = <<>>
    /\ tb_resp = NoResponse /\ tb_sleeps = <<>> /\ tb_result = <<>>

KeyIdle ==
    /\ k_entry = <<>> /\ env_file = [exists |-> FALSE, content |-> <<>>]
    /\ k_pc = "idle" /\ api_status = FALSE /\ k_start = "none"

EnumIdle ==
    /\ g_os = "posix" /\ folder = <<>> /\ g_files = <<>> /\ g_idx = 1
    /\ g_opened = <<>> /\ g_successful = <<>> /\ g_failed = <<>> /\ g_pc = "idle"

EngIdle ==
    /\ e_pc = "idle" /\ e_idx = 1 /\ e_log = <<>> /\ e_result = "none"
    /\ HAS_COM = FALSE /\ os_name = "posix" /\ HAS_LXML = FALSE

SliceIdle ==
    /\ sl_proc = "idle" /\ sl_sheets = <<0, 0>> /\ sl_cur = 1 /\ sl_calls = <<>>

GuiIdle ==
    /\ translate_btn = "idle" /\ threads = <<>> /\ after_queue = 0
    /\ clicks = 0 /\ TRANSLATOR_AVAILABLE = FALSE

PathIdle ==
    /\ entry = "idle" /\ output_dir_arg = "none" /\ in_dir = "none"
    /\ listing = <<>> /\ p_idx = 1 /\ clock = 0 /\ written = <<>>

MainIdle ==
    /\ m_pc = "idle" /\ args_mode = "none" /\ target_exists = FALSE
    /\ deps_ok = TRUE /\ file_kind = "none" /\ exit_code = 0

DirIdle ==
    /\ all_files = <<>> /\ file_idx = 1 /\ successful_files = <<>>
    /\ failed_files = <<>> /\ dir_pc = "idle" /\ HAS_RICH = FALSE
    /\ api_key = TRUE

DocIdle ==
    /\ proc = "idle" /\ progress = FALSE /\ comAvail = FALSE /\ doc_in = <<>>
    /\ d_pc = "idle" /\ hdoc = <<>> /\ hout = <<>> /\ frags = <<>> /\ cur = 1
    /\ sent = <<>> /\ wlog = {} /\ saved = NotSaved /\ d_result = "running"
    /\ faults = 0 /\ res = NoRes

----------------------------------------------------------------------------
(* SpecFilter: should_translate applied to every string of the alphabet *)

InitFilter ==
    /\ st_text \in SeqsUpTo(FilterAlphabet, MaxStrLen)
    /\ st_pc = "call"
    /\ st_result = FALSE
    /\ BatchIdle
    /\ DocIdle
    /\ DirIdle
    /\ MainIdle
    /\ PathIdle
    /\ GuiIdle /\ SliceIdle /\ EngIdle /\ EnumIdle /\ KeyIdle

CallShouldTranslate ==
    /\ st_pc = "call"
    /\ st_result' = should_translate(st_text)
    /\ st_pc' = "done"
    /\ UNCHANGED <<st_text, batchVars, docVars, dirVars, mainVars, pathVars, guiVars, sliceVars, engVars, enumVars, keyVars>>

NextFilter == CallShouldTranslate

SpecFilter == InitFilter /\ [][NextFilter]_vars

----------------------------------------------------------------------------
(* SpecBatch: translate_batch, one action per attempt of the retry loop *)

InitBatch ==
    /\ texts \in TextLists
    /\ tb_pc = "entry"
    /\ retries = 0
    /\ tb_log = <<>>
    /\ tb_resp = NoResponse
    /\ tb_sleeps = <<>>
    /\ tb_result = <<>>
    /\ FilterIdle
    /\ DocIdle
    /\ DirIdle
    /\ MainIdle
    /\ PathIdle
    /\ GuiIdle /\ SliceIdle /\ EngIdle /\ EnumIdle /\ KeyIdle

\* lines 284-285: nothing to translate, no call
TBEmpty ==
    /\ tb_pc = "entry"
    /\ texts = <<>>
    /\ tb_result' = <<>>
    /\ tb_pc' = "done"
    /\ UNCHANGED <<texts, retries, tb_log, tb_resp, tb_sleeps, filterVars, docVars, dirVars, mainVars, pathVars, guiVars, sliceVars, engVars, enumVars, keyVars>>

\* lines 312-338: build the prompt, retries = 0
TBEnter ==
    /\ tb_pc = "entry"
    /\ texts # <<>>
    /\ retries' = 0
    /\ tb_pc' = "loop"
    /\ UNCHANGED <<texts, tb_log, tb_resp, tb_sleeps, tb_result, filterVars, docVars, dirVars, mainVars, pathVars, guiVars, sliceVars, engVars, enumVars, keyVars>>

\* mutant: an empty list is returned once the retries are used up
TBExcept_empty ==
    /\ retries' = retries + 1
    /\ tb_log' = Append(tb_log, "fail")
    /\ IF retries + 1 > max_retries
       THEN /\ tb_result' = <<>>
            /\ tb_pc' = "done"
            /\ UNCHANGED tb_sleeps
       ELSE /\ tb_sleeps' = Append(tb_sleeps, (retries + 1) * 2)
            /\ tb_pc' = "loop"
            /\ UNCHANGED tb_result

\* mutant: every retry waits delay_seconds
TBExcept_flatwait ==
    /\ retries' = retries + 1
    /\ tb_log' = Append(tb_log, "fail")
    /\ IF retries + 1 > max_retries
       THEN /\ tb_result' = texts
            /\ tb_pc' = "done"
            /\ UNCHANGED tb_sleeps
       ELSE /\ tb_sleeps' = Append(tb_sleeps, delay_seconds)
            /\ tb_pc' = "loop"
            /\ UNCHANGED tb_result

\* lines 459-468: the except branch of one attempt
TBExcept ==
    /\ retries' = retries + 1
    /\ tb_log' = Append(tb_log, "fail")
    /\ IF retries + 1 > max_retries
       THEN /\ tb_result' = texts
            /\ tb_pc' = "done"
            /\ UNCHANGED tb_sleeps
       ELSE /\ tb_sleeps' = Append(tb_sleeps, (retries + 1) * 2)
            /\ tb_pc' = "loop"
            /\ UNCHANGED tb_result

\* lines 340-354, 459-468: api_client.chat.completions.create raises
TBAttemptRaises ==
    /\ tb_pc = "loop"
    /\ retries <= max_retries
    /\ TBExcept
    /\ UNCHANGED <<texts, tb_resp, filterVars, docVars, dirVars, mainVars, pathVars, guiVars, sliceVars, engVars, enumVars, keyVars>>

\* lines 340-457: the call returns a response; no content found raises
\* ValueError (line 436), otherwise split, reconcile, sleep and return
TBAttemptReturns ==
    /\ tb_pc = "loop"
    /\ retries <= max_retries
    /\ \E resp \in Responses :
         LET translated_text == ExtractContent(resp)
         IN  IF translated_text = <<>>
             THEN /\ TBExcept
                  /\ UNCHANGED tb_resp
             ELSE /\ tb_resp' = resp
                  /\ tb_log' = Append(tb_log, "ok")
                  /\ tb_result' = Reconcile(Split(translated_text), texts)
                  /\ tb_sleeps' = Append(tb_sleeps, delay_seconds)
                  /\ tb_pc' = "done"
                  /\ UNCHANGED retries
    /\ UNCHANGED <<texts, filterVars, docVars, dirVars, mainVars, pathVars, guiVars, sliceVars, engVars, enumVars, keyVars>>

NextBatch == TBEmpty \/ TBEnter \/ TBAttemptRaises \/ TBAttemptReturns

SpecBatch == InitBatch /\ [][NextBatch]_vars

----------------------------------------------------------------------------
(* SpecDoc: one document through one processor. Every step that can raise  *)
(* has a branch in which it does, as long as faults < MaxFaults.           *)

InitDoc ==
    /\ proc \in {"excel", "word", "ppt_basic", "ppt_hybrid"}
    /\ progress \in IF proc = "ppt_hybrid" THEN {FALSE} ELSE BOOLEAN
    /\ comAvail \in IF proc = "ppt_hybrid" THEN BOOLEAN ELSE {FALSE}
    /\ doc_in \in Docs
    /\ d_pc = "setup"
    /\ hdoc = <<>> /\ hout = <<>> /\ frags = <<>> /\ cur = 1
    /\ sent = <<>> /\ wlog = {} /\ saved = NotSaved /\ d_result = "running"
    /\ faults = 0 /\ res = NoRes
    /\ FilterIdle
    /\ BatchIdle
    /\ DirIdle
    /\ MainIdle
    /\ PathIdle
    /\ GuiIdle /\ SliceIdle /\ EngIdle /\ EnumIdle /\ KeyIdle

MayRaise == faults < MaxFaults

\* the processor returns r; handles is the state its handles are left in
Return(r, handles) ==
    /\ d_result' = r
    /\ d_pc' = "done"
    /\ res' = handles

\* one batch: translate_batch, then the write loop over the batch
RunBatch(perSheet, truthy) ==
    LET e == BatchEnd(frags, cur, perSheet)
        batch_texts == [j \in 1..(e - cur + 1) |-> frags[cur + j - 1].text]
    IN  \E result \in translate_batch(batch_texts) :
        \E F \in SUBSET (cur..e) :
            LET fs == AfterBatch(frags, cur, e, result, truthy, F)
                failed == {i \in cur..e : fs[i].wfail}
            IN  /\ F = failed
                /\ faults + Cardinality(failed) <= MaxFaults
                /\ frags' = fs
                /\ faults' = faults + Cardinality(failed)
                /\ sent' = Append(sent, batch_texts)
                /\ wlog' = wlog \cup {fs[i].loc : i \in {k \in cur..e : fs[k].wrote}}
                /\ hdoc' = ApplyWrites(hdoc,
                               [i \in 1..Len(fs) |->
                                   IF i \in cur..e THEN fs[i]
                                   ELSE [fs[i] EXCEPT !.wrote = FALSE]], 1)
                /\ cur' = e + 1

(* ---- process_excel_file ---- *)

\* lines 491-513: import xlwings, output path, progress tasks. An exception
\* here reaches the handler of line 809 before file_task is bound: with a
\* progress display the handler itself raises UnboundLocalError
XSetup ==
    /\ proc = "excel" /\ d_pc = "setup"
    /\ \/ /\ d_pc' = "x_app"
          /\ UNCHANGED <<d_result, faults, res>>
       \/ /\ MayRaise
          /\ faults' = faults + 1
          /\ Return(IF progress THEN "raised" ELSE "none", res)
    /\ UNCHANGED <<proc, progress, comAvail, doc_in, hdoc, hout, frags, cur,
                   sent, wlog, saved, filterVars, batchVars, dirVars, mainVars, pathVars, guiVars, sliceVars, engVars, enumVars, keyVars>>

\* line 516: xw.App(visible=False), outside the inner try
XApp ==
    /\ proc = "excel" /\ d_pc = "x_app"
    /\ \/ /\ d_pc' = "x_open"
          /\ res' = [res EXCEPT !.app = "open"]
          /\ UNCHANGED <<d_result, faults>>
       \/ /\ MayRaise
          /\ faults' = faults + 1
          /\ Return("none", res)
    /\ UNCHANGED <<proc, progress, comAvail, doc_in, hdoc, hout, frags, cur,
                   sent, wlog, saved, filterVars, batchVars, dirVars, mainVars, pathVars, guiVars, sliceVars, engVars, enumVars, keyVars>>

\* line 519: app.books.open; on failure wb is None, the finally quits app
XOpen ==
    /\ proc = "excel" /\ d_pc = "x_open"
    /\ \/ /\ d_pc' = "x_scan"
          /\ res' = [res EXCEPT !.wb = "open"]
          /\ hdoc' = doc_in
          /\ UNCHANGED <<d_result, faults>>
       \/ /\ MayRaise
          /\ faults' = faults + 1
          /\ Return("none", [res EXCEPT !.app = "closed"])
          /\ UNCHANGED hdoc
    /\ UNCHANGED <<proc, progress, comAvail, doc_in, hout, frags, cur,
                   sent, wlog, saved, filterVars, batchVars, dirVars, mainVars, pathVars, guiVars, sliceVars, engVars, enumVars, keyVars>>

\* lines 527-646: the scan of every sheet; lines 790-807 on an exception
XScan ==
    /\ proc = "excel" /\ d_pc = "x_scan"
    /\ \/ /\ frags' = ExcelScan(hdoc)
          /\ cur' = 1
          /\ d_pc' = IF ExcelScan(hdoc) = <<>> THEN "x_save" ELSE "x_batch"
          /\ UNCHANGED <<d_result, faults, res>>
       \/ /\ MayRaise
          /\ faults' = faults + 1
          /\ Return("none", [res EXCEPT !.wb = "closed", !.app = "closed"])
          /\ UNCHANGED <<frags, cur>>
    /\ UNCHANGED <<proc, progress, comAvail, doc_in, hdoc, hout,
                   sent, wlog, saved, filterVars, batchVars, dirVars, mainVars, pathVars, guiVars, sliceVars, engVars, enumVars, keyVars>>

\* mutant: a batch that came back untranslated ends the batch loop
XBatch_fatal ==
    /\ proc = "excel" /\ d_pc = "x_batch"
    /\ RunBatch(TRUE, FALSE)
    /\ d_pc' = IF cur' > Len(frags) \/ frags'[cur].tr = frags[cur].text
              THEN "x_save" ELSE "x_batch"
    /\ UNCHANGED <<proc, progress, comAvail, doc_in, hout, saved, d_result, res,
                   filterVars, batchVars, dirVars, mainVars, pathVars, guiVars, sliceVars, engVars, enumVars, keyVars>>

\* lines 657-773: one batch of one sheet; a cell is written whenever
\* translated_batch[j] is not None
XBatch ==
    /\ proc = "excel" /\ d_pc = "x_batch"
    /\ RunBatch(TRUE, FALSE)
    /\ d_pc' = IF cur' > Len(frags) THEN "x_save" ELSE "x_batch"
    /\ UNCHANGED <<proc, progress, comAvail, doc_in, hout, saved, d_result, res,
                   filterVars, batchVars, dirVars, mainVars, pathVars, guiVars, sliceVars, engVars, enumVars, keyVars>>

\* lines 645-655 and 780-807: wb.save, return; the finally quits app, the
\* except branch closes wb first
XSave ==
    /\ proc = "excel" /\ d_pc = "x_save"
    /\ \/ /\ saved' = [done |-> TRUE, content |-> hdoc]
          /\ Return("path", [res EXCEPT !.app = "closed"])
          /\ UNCHANGED faults
       \/ /\ MayRaise
          /\ faults' = faults + 1
          /\ Return("none", [res EXCEPT !.wb = "closed", !.app = "closed"])
          /\ UNCHANGED saved
    /\ UNCHANGED <<proc, progress, comAvail, doc_in, hdoc, hout, frags, cur,
                   sent, wlog, filterVars, batchVars, dirVars, mainVars, pathVars, guiVars, sliceVars, engVars, enumVars, keyVars>>

(* ---- process_word_file ---- *)

\* lines 2109-2131; the handler of line 2322 reads file_task
WSetup ==
    /\ proc = "word" /\ d_pc = "setup"
    /\ \/ /\ d_pc' = "w_open"
          /\ UNCHANGED <<d_result, faults, res>>
       \/ /\ MayRaise
          /\ faults' = faults + 1
          /\ Return(IF progress THEN "raised" ELSE "none", res)
    /\ UNCHANGED <<proc, progress, comAvail, doc_in, hdoc, hout, frags, cur,
                   sent, wlog, saved, filterVars, batchVars, dirVars, mainVars, pathVars, guiVars, sliceVars, engVars, enumVars, keyVars>>

\* line 2134: Document(input_path)
WOpen ==
    /\ proc = "word" /\ d_pc = "w_open"
    /\ \/ /\ d_pc' = "w_scan"
          /\ hdoc' = doc_in
          /\ UNCHANGED <<d_result, faults, res>>
       \/ /\ MayRaise
          /\ faults' = faults + 1
          /\ Return("none", res)
          /\ UNCHANGED hdoc
    /\ UNCHANGED <<proc, progress, comAvail, doc_in, hout, frags, cur,
                   sent, wlog, saved, filterVars, batchVars, dirVars, mainVars, pathVars, guiVars, sliceVars, engVars, enumVars, keyVars>>

\* mutant: a document without eligible text is reported as failed, unsaved
WScan_nosave ==
    /\ proc = "word" /\ d_pc = "w_scan"
    /\ \/ /\ frags' = WordScan(hdoc)
          /\ cur' = 1
          /\ IF WordScan(hdoc) = <<>>
             THEN Return("none", res)
             ELSE d_pc' = "w_batch" /\ UNCHANGED <<d_result, res>>
          /\ UNCHANGED faults
       \/ /\ MayRaise
          /\ faults' = faults + 1
          /\ Return("none", res)
          /\ UNCHANGED <<frags, cur>>
    /\ UNCHANGED <<proc, progress, comAvail, doc_in, hdoc, hout,
                   sent, wlog, saved, filterVars, batchVars, dirVars, mainVars, pathVars, guiVars, sliceVars, engVars, enumVars, keyVars>>

\* lines 2142-2221: paragraphs, table cells, headers and footers
WScan ==
    /\ proc = "word" /\ d_pc = "w_scan"
    /\ \/ /\ frags' = WordScan(hdoc)
          /\ cur' = 1
          /\ d_pc' = IF WordScan(hdoc) = <<>> THEN "w_save" ELSE "w_batch"
          /\ UNCHANGED <<d_result, faults, res>>
       \/ /\ MayRaise
          /\ faults' = faults + 1
          /\ Return("none", res)
          /\ UNCHANGED <<frags, cur>>
    /\ UNCHANGED <<proc, progress, comAvail, doc_in, hdoc, hout,
                   sent, wlog, saved, filterVars, batchVars, dirVars, mainVars, pathVars, guiVars, sliceVars, engVars, enumVars, keyVars>>

\* lines 2243-2305: one batch; a slot is written only if translated_batch[j]
\* is truthy
WBatch ==
    /\ proc = "word" /\ d_pc = "w_batch"
    /\ RunBatch(FALSE, TRUE)
    /\ d_pc' = IF cur' > Len(frags) THEN "w_save" ELSE "w_batch"
    /\ UNCHANGED <<proc, progress, comAvail, doc_in, hout, saved, d_result, res,
                   filterVars, batchVars, dirVars, mainVars, pathVars, guiVars, sliceVars, engVars, enumVars, keyVars>>

\* lines 2220-2228 and 2312-2326: doc.save, return
WSave ==
    /\ proc = "word" /\ d_pc = "w_save"
    /\ \/ /\ saved' = [done |-> TRUE, content |-> hdoc]
          /\ Return("path", res)
          /\ UNCHANGED faults
       \/ /\ MayRaise
          /\ faults' = faults + 1
          /\ Return("none", res)
          /\ UNCHANGED saved
    /\ UNCHANGED <<proc, progress, comAvail, doc_in, hdoc, hout, frags, cur,
                   sent, wlog, filterVars, batchVars, dirVars, mainVars, pathVars, guiVars, sliceVars, engVars, enumVars, keyVars>>

(* ---- process_powerpoint_file -> process_powerpoint_file_basic ---- *)

\* lines 1875-1904; whatever the handler of line 2085 raises is caught
\* by process_powerpoint_file (lines 2522-2535)
PSetup ==
    /\ proc = "ppt_basic" /\ d_pc = "setup"
    /\ \/ /\ d_pc' = "p_open"
          /\ UNCHANGED <<d_result, faults, res>>
       \/ /\ MayRaise
          /\ faults' = faults + 1
          /\ Return("none", res)
    /\ UNCHANGED <<proc, progress, comAvail, doc_in, hdoc, hout, frags, cur,
                   sent, wlog, saved, filterVars, batchVars, dirVars, mainVars, pathVars, guiVars, sliceVars, engVars, enumVars, keyVars>>

\* line 1907: Presentation(input_path)
POpen ==
    /\ proc = "ppt_basic" /\ d_pc = "p_open"
    /\ \/ /\ d_pc' = "p_scan"
          /\ hdoc' = doc_in
          /\ UNCHANGED <<d_result, faults, res>>
       \/ /\ MayRaise
          /\ faults' = faults + 1
          /\ Return("none", res)
          /\ UNCHANGED hdoc
    /\ UNCHANGED <<proc, progress, comAvail, doc_in, hout, frags, cur,
                   sent, wlog, saved, filterVars, batchVars, dirVars, mainVars, pathVars, guiVars, sliceVars, engVars, enumVars, keyVars>>

\* lines 1915-1985: the shapes of every slide
PScan ==
    /\ proc = "ppt_basic" /\ d_pc = "p_scan"
    /\ \/ /\ frags' = BasicScan(hdoc)
          /\ cur' = 1
          /\ d_pc' = IF BasicScan(hdoc) = <<>> THEN "p_save" ELSE "p_batch"
          /\ UNCHANGED <<d_result, faults, res>>
       \/ /\ MayRaise
          /\ faults' = faults + 1
          /\ Return("none", res)
          /\ UNCHANGED <<frags, cur>>
    /\ UNCHANGED <<proc, progress, comAvail, doc_in, hdoc, hout,
                   sent, wlog, saved, filterVars, batchVars, dirVars, mainVars, pathVars, guiVars, sliceVars, engVars, enumVars, keyVars>>

\* lines 2007-2068: one batch; a shape is written only if
\* translated_batch[j] is truthy
PBatch ==
    /\ proc = "ppt_basic" /\ d_pc = "p_batch"
    /\ RunBatch(FALSE, TRUE)
    /\ d_pc' = IF cur' > Len(frags) THEN "p_save" ELSE "p_batch"
    /\ UNCHANGED <<proc, progress, comAvail, doc_in, hout, saved, d_result, res,
                   filterVars, batchVars, dirVars, mainVars, pathVars, guiVars, sliceVars, engVars, enumVars, keyVars>>

\* lines 1984-1992 and 2075-2089: prs.save, return
PSave ==
    /\ proc = "ppt_basic" /\ d_pc = "p_save"
    /\ \/ /\ saved' = [done |-> TRUE, content |-> hdoc]
          /\ Return("path", res)
          /\ UNCHANGED faults
       \/ /\ MayRaise
          /\ faults' = faults + 1
          /\ Return("none", res)
          /\ UNCHANGED saved
    /\ UNCHANGED <<proc, progress, comAvail, doc_in, hdoc, hout, frags, cur,
                   sent, wlog, filterVars, batchVars, dirVars, mainVars, pathVars, guiVars, sliceVars, engVars, enumVars, keyVars>>

(* ---- AdvancedPowerPointProcessor._process_with_hybrid_approach, the    *)
(* ---- definition of lines 850-886                                     ---- *)

\* lines 857, 888-927: Presentation(file_path) and the baseline extraction;
\* an exception is caught at line 923 and leaves no elements
HExtract ==
    /\ proc = "ppt_hybrid" /\ d_pc = "setup"
    /\ \/ /\ hdoc' = doc_in
          /\ frags' = EnhancedScan(doc_in)
          /\ UNCHANGED faults
       \/ /\ MayRaise
          /\ faults' = faults + 1
          /\ hdoc' = <<>>
          /\ frags' = <<>>
    /\ d_pc' = IF comAvail THEN "h_com" ELSE "h_xml"
    /\ UNCHANGED <<proc, progress, comAvail, doc_in, hout, cur, sent, wlog,
                   saved, d_result, res, filterVars, batchVars, dirVars, mainVars, pathVars, guiVars, sliceVars, engVars, enumVars, keyVars>>

\* lines 860-867, 1093-1160: the COM extraction. Close and Quit are the
\* last statements of the try block; the handler of line 1156 returns the
\* elements found so far
HComExtract ==
    /\ proc = "ppt_hybrid" /\ d_pc = "h_com"
    /\ \/ /\ frags' = frags \o ComScan(doc_in, Len(doc_in))
          /\ res' = [res EXCEPT !.com_x_app = "closed", !.com_x_pres = "closed"]
          /\ UNCHANGED faults
       \/ /\ MayRaise                       \* Dispatch raises
          /\ faults' = faults + 1
          /\ UNCHANGED <<frags, res>>
       \/ /\ MayRaise                       \* Presentations.Open raises
          /\ faults' = faults + 1
          /\ res' = [res EXCEPT !.com_x_app = "open"]
          /\ UNCHANGED frags
       \/ /\ MayRaise                       \* the loop raises at shape n + 1
          /\ faults' = faults + 1
          /\ \E n \in 0..(Len(doc_in) - 1) :
                frags' = frags \o ComScan(doc_in, n)
          /\ res' = [res EXCEPT !.com_x_app = "open", !.com_x_pres = "open"]
    /\ d_pc' = "h_xml"
    /\ UNCHANGED <<proc, progress, comAvail, doc_in, hdoc, hout, cur, sent, wlog,
                   saved, d_result, filterVars, batchVars, dirVars, mainVars, pathVars, guiVars, sliceVars, engVars, enumVars, keyVars>>

\* lines 870-877, 1215-1243: the XML extraction finds no a:t element
\* outside p:txBody in these documents; its exceptions are caught
HXml ==
    /\ proc = "ppt_hybrid" /\ d_pc = "h_xml"
    /\ d_pc' = "h_translate"
    /\ UNCHANGED <<proc, progress, comAvail, doc_in, hdoc, hout, frags, cur, sent,
                   wlog, saved, d_result, faults, res, filterVars, batchVars, dirVars, mainVars, pathVars, guiVars, sliceVars, engVars, enumVars, keyVars>>

\* lines 880-886, 1300-1331: no element at all returns None; otherwise one
\* translate_batch call carries every eligible text
HTranslate ==
    /\ proc = "ppt_hybrid" /\ d_pc = "h_translate"
    /\ IF frags = <<>>
       THEN /\ Return("none", res)
            /\ UNCHANGED <<frags, sent>>
       ELSE LET elig == Eligible(frags)
                texts_to_translate == [j \in 1..Len(elig) |-> clean_text(frags[elig[j]].text)]
            IN  /\ d_pc' = "h_apply"
                /\ UNCHANGED <<d_result, res>>
                /\ IF texts_to_translate = <<>>
                   THEN UNCHANGED <<frags, sent>>
                   ELSE \E result \in translate_batch(texts_to_translate) :
                          /\ frags' = WithTranslations(frags, elig, result)
                          /\ sent' = Append(sent, texts_to_translate)
    /\ UNCHANGED <<proc, progress, comAvail, doc_in, hdoc, hout, cur, wlog,
                   saved, faults, filterVars, batchVars, dirVars, mainVars, pathVars, guiVars, sliceVars, engVars, enumVars, keyVars>>

\* lines 1333-1443: a second Presentation(file_path) is loaded and saved;
\* the writes go through the paragraph and shape objects the elements hold
HApply ==
    /\ proc = "ppt_hybrid" /\ d_pc = "h_apply"
    /\ \/ /\ MayRaise                       \* Presentation(file_path) raises
          /\ faults' = faults + 1
          /\ Return("none", res)
          /\ UNCHANGED <<hdoc, hout, frags, wlog, saved>>
       \/ \E F \in SUBSET (1..Len(frags)) :
            LET fs == AfterApply(frags, F)
                failed == {i \in 1..Len(fs) : fs[i].wfail}
                com_updates_needed == {i \in 1..Len(fs) : fs[i].has_tr /\ fs[i].kind = "wordart"}
            IN  /\ F = failed
                /\ faults + Cardinality(failed) <= MaxFaults
                /\ hout' = doc_in
                /\ frags' = fs
                /\ hdoc' = ApplyWrites(hdoc, fs, 1)
                /\ wlog' = wlog \cup {fs[i].loc : i \in {k \in 1..Len(fs) : fs[k].wrote}}
                /\ \/ /\ faults' = faults + Cardinality(failed)
                      /\ saved' = [done |-> TRUE, content |-> doc_in]
                      /\ IF com_updates_needed # {} /\ comAvail
                         THEN /\ d_pc' = "h_com_update"
                              /\ UNCHANGED <<d_result, res>>
                         ELSE Return("path", res)
                   \/ /\ faults + Cardinality(failed) < MaxFaults   \* prs.save raises
                      /\ faults' = faults + Cardinality(failed) + 1
                      /\ Return("none", res)
                      /\ UNCHANGED saved
    /\ UNCHANGED <<proc, progress, comAvail, doc_in, cur, sent, filterVars, batchVars, dirVars, mainVars, pathVars, guiVars, sliceVars, engVars, enumVars, keyVars>>

\* lines 1434, 1445-1481: the COM updates on the saved file; Save, Close and
\* Quit are the last statements of the try block
HComUpdate ==
    /\ proc = "ppt_hybrid" /\ d_pc = "h_com_update"
    /\ \/ \E F \in SUBSET (1..Len(frags)) :
            LET fs == AfterComUpdate(frags, F)
                failed == {i \in 1..Len(fs) : fs[i].wfail}
            IN  /\ F = failed
                /\ faults + Cardinality(failed) <= MaxFaults
                /\ wlog' = wlog \cup {fs[i].loc : i \in {k \in 1..Len(fs) : fs[k].wrote}}
                /\ frags' = [i \in 1..Len(fs) |->
                               [fs[i] EXCEPT !.wrote = fs[i].wrote \/ frags[i].wrote]]
                /\ \/ /\ faults' = faults + Cardinality(failed)
                      /\ saved' = [saved EXCEPT !.content = ApplyWrites(saved.content, fs, 1)]
                      /\ res' = [res EXCEPT !.com_u_app = "closed", !.com_u_pres = "closed"]
                   \/ /\ faults + Cardinality(failed) < MaxFaults   \* Save raises
                      /\ faults' = faults + Cardinality(failed) + 1
                      /\ res' = [res EXCEPT !.com_u_app = "open", !.com_u_pres = "open"]
                      /\ UNCHANGED saved
       \/ /\ MayRaise                       \* Dispatch raises
          /\ faults' = faults + 1
          /\ UNCHANGED <<frags, wlog, saved, res>>
       \/ /\ MayRaise                       \* Presentations.Open raises
          /\ faults' = faults + 1
          /\ res' = [res EXCEPT !.com_u_app = "open"]
          /\ UNCHANGED <<frags, wlog, saved>>
    /\ d_result' = "path"
    /\ d_pc' = "done"
    /\ UNCHANGED <<proc, progress, comAvail, doc_in, hdoc, hout, cur, sent,
                   filterVars, batchVars, dirVars, mainVars, pathVars, guiVars, sliceVars, engVars, enumVars, keyVars>>

NextDoc ==
    \/ XSetup \/ XApp \/ XOpen \/ XScan \/ XBatch \/ XSave
    \/ WSetup \/ WOpen \/ WScan \/ WBatch \/ WSave
    \/ PSetup \/ POpen \/ PScan \/ PBatch \/ PSave
    \/ HExtract \/ HComExtract \/ HXml \/ HTranslate \/ HApply \/ HComUpdate

SpecDoc == InitDoc /\ [][NextDoc]_vars

----------------------------------------------------------------------------
(* process_directory and process_file (translator.py lines 2328-2495)     *)

\* get_file_type on the globbed extensions, in the order of all_files
KindRank(k) == CASE k = "excel" -> 1 [] k = "word" -> 2 [] OTHER -> 3

FilePool == [kind : {"excel", "word", "ppt"}, temp : BOOLEAN]

\* all_files = excel_files + word_files + ppt_files
FileLists ==
    {fl \in SeqsUpTo(FilePool, MaxFiles) :
        \A i, j \in 1..Len(fl) : i < j => KindRank(fl[i].kind) <= KindRank(fl[j].kind)}

\* the contents a file of the directory may turn out to have when opened
DirDocs == {d \in Docs : Len(d) <= 1}

\* process_file lines 2379-2390: the processor get_file_type selects
Processor(k) == CASE k = "excel" -> "excel" [] k = "word" -> "word" [] OTHER -> "ppt_basic"

InitDir ==
    /\ all_files \in FileLists
    /\ file_idx = 1
    /\ successful_files = <<>> /\ failed_files = <<>>
    /\ dir_pc = "start"
    /\ HAS_RICH \in BOOLEAN
    /\ api_key \in BOOLEAN
    /\ FilterIdle /\ BatchIdle /\ DocIdle /\ MainIdle /\ PathIdle /\ GuiIdle /\ SliceIdle /\ EngIdle /\ EnumIdle /\ KeyIdle

DocReset ==
    /\ proc' = "idle" /\ progress' = FALSE /\ comAvail' = FALSE /\ doc_in' = <<>>
    /\ d_pc' = "idle" /\ hdoc' = <<>> /\ hout' = <<>> /\ frags' = <<>> /\ cur' = 1
    /\ sent' = <<>> /\ wlog' = {} /\ saved' = NotSaved /\ d_result' = "running"
    /\ faults' = 0 /\ res' = NoRes

\* lines 2415-2447: no supported file -> ([], []); otherwise enter the loop
DirStart ==
    /\ dir_pc = "start"
    /\ dir_pc' = IF all_files = <<>> THEN "returned" ELSE "loop"
    /\ UNCHANGED <<all_files, file_idx, successful_files, failed_files,
                   HAS_RICH, api_key, filterVars, batchVars, docVars, mainVars, pathVars, guiVars, sliceVars, engVars, enumVars, keyVars>>

\* lines 2454-2457 / 2470-2473: a name starting with ~$ is skipped
DirSkipTemp ==
    /\ dir_pc = "loop" /\ file_idx <= Len(all_files)
    /\ all_files[file_idx].temp
    /\ file_idx' = file_idx + 1
    /\ UNCHANGED <<all_files, successful_files, failed_files, dir_pc,
                   HAS_RICH, api_key, filterVars, batchVars, docVars, mainVars, pathVars, guiVars, sliceVars, engVars, enumVars, keyVars>>

\* lines 2461 / 2477 with process_file lines 2344-2390: without the API key
\* process_file returns None; otherwise the processor of the file's type is
\* entered, with the progress object when rich is installed
DirProcessFile ==
    /\ dir_pc = "loop" /\ file_idx <= Len(all_files)
    /\ ~all_files[file_idx].temp
    /\ IF ~api_key
       THEN /\ failed_files' = Append(failed_files, file_idx)
            /\ file_idx' = file_idx + 1
            /\ UNCHANGED <<dir_pc, docVars>>
       ELSE /\ \E d \in DirDocs : doc_in' = d
            /\ proc' = Processor(all_files[file_idx].kind)
            /\ progress' = HAS_RICH
            /\ d_pc' = "setup"
            /\ dir_pc' = "in_file"
            /\ UNCHANGED <<comAvail, hdoc, hout, frags, cur, sent, wlog, saved,
                           d_result, faults, res, failed_files, file_idx>>
    /\ UNCHANGED <<all_files, successful_files, HAS_RICH, api_key,
                   filterVars, batchVars, mainVars, pathVars, guiVars, sliceVars, engVars, enumVars, keyVars>>

\* mutant: every file process_file returned from is recorded as a success
DirRecord_allsuccess ==
    /\ dir_pc = "in_file" /\ d_pc = "done"
    /\ IF d_result \in {"path", "none"}
       THEN /\ successful_files' = Append(successful_files, file_idx)
            /\ file_idx' = file_idx + 1
            /\ dir_pc' = "loop"
            /\ UNCHANGED failed_files
       ELSE /\ dir_pc' = "raised"
            /\ UNCHANGED <<successful_files, failed_files, file_idx>>
    /\ DocReset
    /\ UNCHANGED <<all_files, HAS_RICH, api_key, filterVars, batchVars,
                   mainVars, pathVars, guiVars, sliceVars, engVars, enumVars, keyVars>>

\* lines 2463-2466 / 2479-2482: the file is recorded by the truth of what
\* process_file returned; an exception process_file let through leaves
\* process_directory, which has no handler
DirRecord ==
    /\ dir_pc = "in_file" /\ d_pc = "done"
    /\ CASE d_result = "path" ->
              /\ successful_files' = Append(successful_files, file_idx)
              /\ file_idx' = file_idx + 1
              /\ dir_pc' = "loop"
              /\ UNCHANGED failed_files
         [] d_result = "none" ->
              /\ failed_files' = Append(failed_files, file_idx)
              /\ file_idx' = file_idx + 1
              /\ dir_pc' = "loop"
              /\ UNCHANGED successful_files
         [] OTHER ->
              /\ dir_pc' = "raised"
              /\ UNCHANGED <<successful_files, failed_files, file_idx>>
    /\ DocReset
    /\ UNCHANGED <<all_files, HAS_RICH, api_key, filterVars, batchVars, mainVars, pathVars, guiVars, sliceVars, engVars, enumVars, keyVars>>

\* lines 2484-2495: the summary and the two lists
DirReturn ==
    /\ dir_pc = "loop" /\ file_idx > Len(all_files)
    /\ dir_pc' = "returned"
    /\ UNCHANGED <<all_files, file_idx, successful_files, failed_files,
                   HAS_RICH, api_key, filterVars, batchVars, docVars, mainVars, pathVars, guiVars, sliceVars, engVars, enumVars, keyVars>>

NextDir ==
    \/ DirStart \/ DirSkipTemp \/ DirProcessFile \/ DirRecord \/ DirReturn
    \/ XSetup \/ XApp \/ XOpen \/ XScan \/ XBatch \/ XSave
    \/ WSetup \/ WOpen \/ WScan \/ WBatch \/ WSave
    \/ PSetup \/ POpen \/ PScan \/ PBatch \/ PSave

SpecDir == InitDir /\ [][NextDir]_vars

----------------------------------------------------------------------------
(* main (translator.py lines 2539-2653)                                   *)

InitMain ==
    /\ m_pc = "start"
    /\ args_mode \in {"file", "dir", "none"}
    /\ target_exists \in BOOLEAN
    /\ deps_ok \in BOOLEAN
    /\ file_kind \in IF args_mode = "file" /\ target_exists /\ deps_ok
                     THEN {"excel", "word", "ppt", "unknown"} ELSE {"none"}
    /\ exit_code = 0
    /\ all_files \in IF args_mode # "file" /\ target_exists /\ deps_ok
                     THEN FileLists ELSE {<<>>}
    /\ file_idx = 1
    /\ successful_files = <<>> /\ failed_files = <<>>
    /\ dir_pc = "idle"
    /\ HAS_RICH \in IF args_mode # "file" /\ target_exists /\ deps_ok
                    THEN BOOLEAN ELSE {FALSE}
    /\ api_key \in IF target_exists /\ deps_ok THEN BOOLEAN ELSE {TRUE}
    /\ FilterIdle /\ BatchIdle /\ DocIdle /\ PathIdle /\ GuiIdle /\ SliceIdle /\ EngIdle /\ EnumIdle /\ KeyIdle

Exit(code) == m_pc' = "done" /\ exit_code' = code

\* lines 2561-2633: the dependency check, the default input directory, and
\* the existence tests of the named file or directory
MainStart ==
    /\ m_pc = "start"
    /\ IF ~deps_ok THEN Exit(1) /\ UNCHANGED dir_pc
       ELSE IF args_mode = "none" /\ ~target_exists THEN Exit(0) /\ UNCHANGED dir_pc
       ELSE IF ~target_exists THEN Exit(1) /\ UNCHANGED dir_pc
       ELSE IF args_mode = "file"
            THEN m_pc' = "file" /\ UNCHANGED <<exit_code, dir_pc>>
            ELSE m_pc' = "dir" /\ dir_pc' = "start" /\ UNCHANGED exit_code
    /\ UNCHANGED <<args_mode, target_exists, deps_ok, file_kind, all_files,
                   file_idx, successful_files, failed_files, HAS_RICH, api_key,
                   filterVars, batchVars, docVars, pathVars, guiVars, sliceVars, engVars, enumVars, keyVars>>

\* line 2609 with process_file lines 2344-2393, called without a progress
\* object: no API key or an unsupported type returns None
MainProcessFile ==
    /\ m_pc = "file" /\ d_pc = "idle"
    /\ IF ~api_key \/ file_kind = "unknown"
       THEN /\ d_pc' = "done" /\ d_result' = "none"
            /\ UNCHANGED <<proc, progress, doc_in>>
       ELSE /\ \E d \in DirDocs : doc_in' = d
            /\ proc' = Processor(file_kind)
            /\ progress' = FALSE
            /\ d_pc' = "setup"
            /\ UNCHANGED d_result
    /\ UNCHANGED <<comAvail, hdoc, hout, frags, cur, sent, wlog, saved, faults,
                   res, filterVars, batchVars, dirVars, mainVars, pathVars, guiVars, sliceVars, engVars, enumVars, keyVars>>

\* lines 2610-2614 and 2653: 0 when process_file returned a path, else 1
MainFileDone ==
    /\ m_pc = "file" /\ d_pc = "done"
    /\ Exit(IF d_result = "path" THEN 0 ELSE 1)
    /\ UNCHANGED <<args_mode, target_exists, deps_ok, file_kind,
                   filterVars, batchVars, docVars, dirVars, pathVars, guiVars, sliceVars, engVars, enumVars, keyVars>>

\* lines 2621-2626 and 2653: whatever lists process_directory returned, main
\* returns 0; an exception process_directory let through ends the
\* interpreter with status 1
MainDirDone ==
    /\ m_pc = "dir" /\ dir_pc \in {"returned", "raised"}
    /\ Exit(IF dir_pc = "returned" THEN 0 ELSE 1)
    /\ UNCHANGED <<args_mode, target_exists, deps_ok, file_kind,
                   filterVars, batchVars, docVars, dirVars, pathVars, guiVars, sliceVars, engVars, enumVars, keyVars>>

NextMain ==
    \/ MainStart \/ MainProcessFile \/ MainFileDone \/ MainDirDone
    \/ DirStart \/ DirSkipTemp \/ DirProcessFile \/ DirRecord \/ DirReturn
    \/ XSetup \/ XApp \/ XOpen \/ XScan \/ XBatch \/ XSave
    \/ WSetup \/ WOpen \/ WScan \/ WBatch \/ WSave
    \/ PSetup \/ POpen \/ PScan \/ PBatch \/ PSave

SpecMain == InitMain /\ [][NextMain]_vars

----------------------------------------------------------------------------
(* Output paths (translator.py lines 495-503, 1879-1894, 2113-2121)       *)

NameAlphabet == {"a", " "}

\* re.sub(r'[^\w\-]', '_', base_name): word characters and '-' are kept
IsWordChar(c) == c \notin {" ", "."}

Sanitize(base) == [i \in 1..Len(base) |-> IF IsWordChar(base[i]) THEN base[i] ELSE "_"]

\* re.sub(r'_+', '_', name)
RECURSIVE CollapseUnderscores(_)
CollapseUnderscores(n) ==
    IF Len(n) < 2 THEN n
    ELSE IF n[1] = "_" /\ n[2] = "_" THEN CollapseUnderscores(Tail(n))
    ELSE <<n[1]>> \o CollapseUnderscores(Tail(n))

\* str.strip('_')
RECURSIVE StripUnderscores(_)
StripUnderscores(n) ==
    IF n = <<>> THEN n
    ELSE IF n[1] = "_" THEN StripUnderscores(Tail(n))
    ELSE IF n[Len(n)] = "_" THEN StripUnderscores(SubSeq(n, 1, Len(n) - 1))
    ELSE n

safe_base_name(base) == StripUnderscores(CollapseUnderscores(Sanitize(base)))

\* strftime("%Y%m%d_%H%M%S") of the second t: the decimal digits of t
RECURSIVE timestamp(_)
timestamp(t) ==
    LET d == <<"0", "1", "2", "3", "4", "5", "6", "7", "8", "9">>[(t % 10) + 1]
    IN  IF t < 10 THEN <<d>> ELSE Append(timestamp(t \div 10), d)

TranslatedSuffix == <<"-", "t", "r", "a", "n", "s", "l", "a", "t", "e", "d">>
TranslatedPrefix == <<"T", "R", "A", "N", "S", "L", "A", "T", "E", "D", "_">>

\* mutant: the output keeps the name of the input
OutName_plain(f, t) == f.base \o <<f.ext>>

\* the file name of output_path: f"{base_name}-translated{ext}" for Excel
\* and Word, f"TRANSLATED_{safe_base_name}_{timestamp}{ext}" for PowerPoint
OutName(f, t) ==
    IF f.ext = ".pptx"
    THEN TranslatedPrefix \o safe_base_name(f.base) \o <<"_">> \o timestamp(t) \o <<f.ext>>
    ELSE f.base \o TranslatedSuffix \o <<f.ext>>

\* output_path: always below project_dir/output
output_path(f, t) == [dir |-> "output", name |-> OutName(f, t)]

InPath(d, f) == [dir |-> d, name |-> f.base \o <<f.ext>>]

\* base names: short ones, and names earlier runs gave to their outputs
BaseNames ==
    (SeqsUpTo(NameAlphabet, MaxNameLen) \ {<<>>})
        \cup {<<"a">> \o TranslatedSuffix,
              TranslatedPrefix \o <<"a", "_">> \o timestamp(0)}

ExtRank(e) == CASE e = ".xlsx" -> 1 [] e = ".docx" -> 2 [] OTHER -> 3

InputFiles == [base : BaseNames, ext : {".xlsx", ".docx", ".pptx"}]

\* a directory listing in the order of all_files: no file, one file, or two
\* different files, Excel before Word before PowerPoint
Listings ==
    {<<>>} \cup {<<f>> : f \in InputFiles}
        \cup {<<pr[1], pr[2]>> :
                pr \in {q \in InputFiles \X InputFiles :
                           q[1] # q[2] /\ ExtRank(q[1].ext) <= ExtRank(q[2].ext)}}

\* the folder the user configured: --output-dir or the Output Location
\* field when given, project_dir/output otherwise
ConfiguredDir == IF output_dir_arg = "none" THEN "output" ELSE output_dir_arg

InitPaths ==
    /\ entry \in {"cli", "gui"}
    /\ output_dir_arg \in {"none", "custom"}
    /\ in_dir \in {"input", "output"}
    /\ listing \in Listings
    /\ p_idx = 1
    /\ clock = 0
    /\ written = <<>>
    /\ FilterIdle /\ BatchIdle /\ DocIdle /\ DirIdle /\ MainIdle /\ GuiIdle /\ SliceIdle /\ EngIdle /\ EnumIdle /\ KeyIdle

\* one file of the loop was processed and saved: the processor computes
\* output_path from the file's name and the current second and saves there;
\* neither main's --output-dir nor the GUI's output_path reaches it
SaveOutput ==
    /\ p_idx <= Len(listing)
    /\ written' = Append(written, [src |-> p_idx,
                                   path |-> output_path(listing[p_idx], clock)])
    /\ p_idx' = p_idx + 1
    /\ \E dt \in {0, 1} : clock + dt <= MaxClock /\ clock' = clock + dt
    /\ UNCHANGED <<entry, output_dir_arg, in_dir, listing,
                   filterVars, batchVars, docVars, dirVars, mainVars, guiVars, sliceVars, engVars, enumVars, keyVars>>

\* one file of the loop failed: nothing is saved for it
FailOutput ==
    /\ p_idx <= Len(listing)
    /\ p_idx' = p_idx + 1
    /\ \E dt \in {0, 1} : clock + dt <= MaxClock /\ clock' = clock + dt
    /\ UNCHANGED <<entry, output_dir_arg, in_dir, listing, written,
                   filterVars, batchVars, docVars, dirVars, mainVars, guiVars, sliceVars, engVars, enumVars, keyVars>>

NextPaths == SaveOutput \/ FailOutput

SpecPaths == InitPaths /\ [][NextPaths]_vars

----------------------------------------------------------------------------
(* The GUI (gui_translator.py lines 244-256, 316-395). A worker thread is *)
(* "started", then "processing" inside process_directory, "in_call" while *)
(* a translate_batch call is in flight, "results" while it shows the      *)
(* result dialog, and "finished" once its finally clause has queued the   *)
(* button reset.                                                          *)

NewThread == [pc |-> "started", calls |-> 0]

\* check_initial_setup: without the translator module the button is disabled
InitGui ==
    /\ TRANSLATOR_AVAILABLE \in BOOLEAN
    /\ translate_btn = IF TRANSLATOR_AVAILABLE THEN "normal" ELSE "disabled"
    /\ threads = <<>>
    /\ after_queue = 0
    /\ clicks = 0
    /\ FilterIdle /\ BatchIdle /\ DocIdle /\ DirIdle /\ MainIdle /\ PathIdle
    /\ SliceIdle /\ EngIdle /\ EnumIdle /\ KeyIdle

\* mutant: the button is left enabled while the worker runs
start_translation_nodisable ==
    /\ clicks < MaxClicks
    /\ translate_btn = "normal"
    /\ clicks' = clicks + 1
    /\ \E api_ok, input_ok \in BOOLEAN :
         IF TRANSLATOR_AVAILABLE /\ api_ok /\ input_ok
         THEN /\ threads' = Append(threads, NewThread)
              /\ UNCHANGED translate_btn
         ELSE UNCHANGED <<translate_btn, threads>>
    /\ UNCHANGED <<after_queue, TRANSLATOR_AVAILABLE,
                   filterVars, batchVars, docVars, dirVars, mainVars, pathVars, sliceVars, engVars, enumVars, keyVars>>

\* lines 316-338: a click on the enabled button; the early returns, or the
\* button is disabled and the worker thread started
start_translation ==
    /\ clicks < MaxClicks
    /\ translate_btn = "normal"
    /\ clicks' = clicks + 1
    /\ \E api_ok, input_ok \in BOOLEAN :
         IF TRANSLATOR_AVAILABLE /\ api_ok /\ input_ok
         THEN /\ translate_btn' = "disabled"
              /\ threads' = Append(threads, NewThread)
         ELSE UNCHANGED <<translate_btn, threads>>
    /\ UNCHANGED <<after_queue, TRANSLATOR_AVAILABLE,
                   filterVars, batchVars, docVars, dirVars, mainVars, pathVars, sliceVars, engVars, enumVars, keyVars>>

\* a click on the disabled button: Tk does not invoke the command
ClickDisabled ==
    /\ clicks < MaxClicks
    /\ translate_btn = "disabled"
    /\ clicks' = clicks + 1
    /\ UNCHANGED <<translate_btn, threads, after_queue, TRANSLATOR_AVAILABLE,
                   filterVars, batchVars, docVars, dirVars, mainVars, pathVars, sliceVars, engVars, enumVars, keyVars>>

SetPc(w, pc) == [threads EXCEPT ![w].pc = pc]

\* run_translation lines 342-357: up to the call of process_directory
WorkerEnter ==
    /\ \E w \in 1..Len(threads) :
         /\ threads[w].pc = "started"
         /\ threads' = SetPc(w, "processing")
    /\ UNCHANGED <<translate_btn, after_queue, clicks, TRANSLATOR_AVAILABLE,
                   filterVars, batchVars, docVars, dirVars, mainVars, pathVars, sliceVars, engVars, enumVars, keyVars>>

\* inside process_directory: a translate_batch call is issued
WorkerCall ==
    /\ \E w \in 1..Len(threads) :
         /\ threads[w].pc = "processing"
         /\ threads[w].calls < MaxCalls
         /\ threads' = [threads EXCEPT ![w].pc = "in_call", ![w].calls = @ + 1]
    /\ UNCHANGED <<translate_btn, after_queue, clicks, TRANSLATOR_AVAILABLE,
                   filterVars, batchVars, docVars, dirVars, mainVars, pathVars, sliceVars, engVars, enumVars, keyVars>>

\* the call returns or raises
WorkerCallEnds ==
    /\ \E w \in 1..Len(threads) :
         /\ threads[w].pc = "in_call"
         /\ threads' = SetPc(w, "processing")
    /\ UNCHANGED <<translate_btn, after_queue, clicks, TRANSLATOR_AVAILABLE,
                   filterVars, batchVars, docVars, dirVars, mainVars, pathVars, sliceVars, engVars, enumVars, keyVars>>

\* lines 357-385: process_directory returned or raised; the result or the
\* error is shown in a message box
WorkerResults ==
    /\ \E w \in 1..Len(threads) :
         /\ threads[w].pc \in {"started", "processing"}
         /\ threads' = SetPc(w, "results")
    /\ UNCHANGED <<translate_btn, after_queue, clicks, TRANSLATOR_AVAILABLE,
                   filterVars, batchVars, docVars, dirVars, mainVars, pathVars, sliceVars, engVars, enumVars, keyVars>>

\* mutant: the worker ends without queueing the button reset
WorkerFinally_noreset ==
    /\ \E w \in 1..Len(threads) :
         /\ threads[w].pc = "results"
         /\ threads' = SetPc(w, "finished")
    /\ UNCHANGED <<translate_btn, after_queue, clicks, TRANSLATOR_AVAILABLE,
                   filterVars, batchVars, docVars, dirVars, mainVars, pathVars, sliceVars, engVars, enumVars, keyVars>>

\* lines 387-389: the finally clause queues reset_translation_button
WorkerFinally ==
    /\ \E w \in 1..Len(threads) :
         /\ threads[w].pc = "results"
         /\ threads' = SetPc(w, "finished")
    /\ after_queue' = after_queue + 1
    /\ UNCHANGED <<translate_btn, clicks, TRANSLATOR_AVAILABLE,
                   filterVars, batchVars, docVars, dirVars, mainVars, pathVars, sliceVars, engVars, enumVars, keyVars>>

\* lines 391-395: the main loop runs the queued callback
reset_translation_button ==
    /\ after_queue > 0
    /\ after_queue' = after_queue - 1
    /\ translate_btn' = "normal"
    /\ UNCHANGED <<threads, clicks, TRANSLATOR_AVAILABLE,
                   filterVars, batchVars, docVars, dirVars, mainVars, pathVars, sliceVars, engVars, enumVars, keyVars>>

NextGui ==
    \/ start_translation \/ ClickDisabled
    \/ WorkerEnter \/ WorkerCall \/ WorkerCallEnds \/ WorkerResults \/ WorkerFinally
    \/ reset_translation_button

SpecGui == InitGui /\ [][NextGui]_vars

\* The scheduling of the GUI: a started thread runs its straight-line code
\* (WorkerEnter, WorkerResults, WorkerFinally), a call that is in flight
\* returns or raises, and the Tk main loop runs a callback queued with
\* root.after. Whether a click or a further call happens is not required.
SpecGuiFair ==
    /\ InitGui /\ [][NextGui]_vars
    /\ WF_vars(WorkerEnter) /\ WF_vars(WorkerCallEnds)
    /\ WF_vars(WorkerResults) /\ WF_vars(WorkerFinally)
    /\ WF_vars(reset_translation_button)

----------------------------------------------------------------------------
(* Batching of a long fragment list (translator.py lines 657-688,         *)
(* 2000-2026, 2237-2262 and 1300-1331)                                    *)

\* the fragment list of a document with sheets[1] fragments on its first
\* sheet (part) and sheets[2] on its second
SliceFrags(sheets) ==
    [i \in 1..(sheets[1] + sheets[2]) |->
        Frag(<<IF i <= sheets[1] THEN 1 ELSE 2, i>>, "cell", Hi)]

InitSlices ==
    /\ sl_proc \in {"excel", "word", "ppt_basic", "ppt_hybrid"}
    /\ sl_sheets \in {q \in (0..MaxFrags) \X (0..MaxFrags) : q[1] + q[2] <= MaxFrags}
    /\ sl_cur = 1
    /\ sl_calls = <<>>
    /\ FilterIdle /\ BatchIdle /\ DocIdle /\ DirIdle /\ MainIdle /\ PathIdle
    /\ GuiIdle /\ EngIdle /\ EnumIdle /\ KeyIdle

\* the loops "for i in range(0, len(texts_to_translate), batch_size)": per
\* sheet in process_excel_file, over the whole list in process_word_file and
\* process_powerpoint_file_basic
SliceCall ==
    /\ sl_proc \in {"excel", "word", "ppt_basic"}
    /\ sl_cur <= Len(SliceFrags(sl_sheets))
    /\ LET e == BatchEnd(SliceFrags(sl_sheets), sl_cur, sl_proc = "excel")
       IN  /\ sl_calls' = Append(sl_calls, [lo |-> sl_cur, hi |-> e])
           /\ sl_cur' = e + 1
    /\ UNCHANGED <<sl_proc, sl_sheets, filterVars, batchVars, docVars, dirVars,
                   mainVars, pathVars, guiVars, engVars, enumVars, keyVars>>

\* _translate_elements lines 1318-1323: one translate_batch call with every
\* eligible text
SliceAll ==
    /\ sl_proc = "ppt_hybrid"
    /\ sl_cur = 1
    /\ Len(SliceFrags(sl_sheets)) > 0
    /\ sl_calls' = Append(sl_calls, [lo |-> 1, hi |-> Len(SliceFrags(sl_sheets))])
    /\ sl_cur' = Len(SliceFrags(sl_sheets)) + 1
    /\ UNCHANGED <<sl_proc, sl_sheets, filterVars, batchVars, docVars, dirVars,
                   mainVars, pathVars, guiVars, engVars, enumVars, keyVars>>

NextSlices == SliceCall \/ SliceAll

SpecSlices == InitSlices /\ [][NextSlices]_vars

----------------------------------------------------------------------------
(* AdvancedPowerPointProcessor.process_presentation: the engine loop *)

\* lines 822-827: self.engines, a dict iterated in insertion order
engines == <<"hybrid", "python_pptx", "com_automation", "xml_direct">>

\* lines 1284 and 1293: the support an engine requires before it does
\* anything else; the other two engines require nothing
Unavailable(engine_name) ==
    \/ engine_name = "com_automation" /\ (~HAS_COM \/ os_name # "nt")
    \/ engine_name = "xml_direct" /\ ~HAS_LXML

InitEngines ==
    /\ e_pc = "loop" /\ e_idx = 1 /\ e_log = <<>> /\ e_result = "running"
    /\ HAS_COM \in BOOLEAN /\ os_name \in {"nt", "posix"} /\ HAS_LXML \in BOOLEAN
    /\ FilterIdle /\ BatchIdle /\ DocIdle /\ DirIdle /\ MainIdle /\ PathIdle
    /\ GuiIdle /\ SliceIdle /\ EnumIdle /\ KeyIdle

\* the loop of lines 837-846 goes on to the next engine
NextEngine(entry_) ==
    /\ e_log' = Append(e_log, entry_)
    /\ e_idx' = e_idx + 1
    /\ e_pc' = "loop"
    /\ UNCHANGED e_result

\* lines 837-840: engine_func(...) is called; com_automation and xml_direct
\* raise at once when their support is missing (lines 1284-1285,
\* 1293-1294), otherwise the engine goes on to open the document
EngineCall ==
    /\ e_pc = "loop" /\ e_idx <= Len(engines)
    /\ IF Unavailable(engines[e_idx])
       THEN NextEngine([engine |-> engines[e_idx], opened |-> FALSE, outcome |-> "raised"])
       ELSE /\ e_pc' = "in_engine"
            /\ UNCHANGED <<e_idx, e_log, e_result>>
    /\ UNCHANGED <<HAS_COM, os_name, HAS_LXML,
                   filterVars, batchVars, docVars, dirVars, mainVars, pathVars, guiVars, sliceVars, enumVars, keyVars>>

\* mutant: the loop goes on after an engine produced a result
EngineEnds_goeson ==
    /\ e_pc = "in_engine"
    /\ \E outcome \in {"path", "none", "raised"} :
          NextEngine([engine |-> engines[e_idx], opened |-> TRUE, outcome |-> outcome])
    /\ UNCHANGED <<HAS_COM, os_name, HAS_LXML,
                   filterVars, batchVars, docVars, dirVars, mainVars, pathVars, guiVars, sliceVars, enumVars, keyVars>>

\* lines 840-846: the engine returned a path (returned at once), returned
\* None, or raised (caught, continue)
EngineEnds ==
    /\ e_pc = "in_engine"
    /\ \E outcome \in {"path", "none", "raised"} :
          LET entry_ == [engine |-> engines[e_idx], opened |-> TRUE, outcome |-> outcome]
          IN  IF outcome = "path"
              THEN /\ e_log' = Append(e_log, entry_)
                   /\ e_pc' = "returned"
                   /\ e_result' = "path"
                   /\ UNCHANGED e_idx
              ELSE NextEngine(entry_)
    /\ UNCHANGED <<HAS_COM, os_name, HAS_LXML,
                   filterVars, batchVars, docVars, dirVars, mainVars, pathVars, guiVars, sliceVars, enumVars, keyVars>>

\* line 848: raise Exception("All processing engines failed")
RaiseAllFailed ==
    /\ e_pc = "loop" /\ e_idx > Len(engines)
    /\ e_pc' = "raised"
    /\ e_result' = "All processing engines failed"
    /\ UNCHANGED <<e_idx, e_log, HAS_COM, os_name, HAS_LXML,
                   filterVars, batchVars, docVars, dirVars, mainVars, pathVars, guiVars, sliceVars, enumVars, keyVars>>

NextEngines == EngineCall \/ EngineEnds \/ RaiseAllFailed

SpecEngines == InitEngines /\ [][NextEngines]_vars

----------------------------------------------------------------------------
(* process_directory: which files of the folder are enumerated *)

MaxFolder == 2

Extensions == {".xlsx", ".xls", ".xlsm", ".docx", ".doc", ".pptx", ".ppt",
               ".txt", ".XLSX"}

\* a file of the folder: its extension, and whether its name starts with ~$
FolderFiles == [ext : Extensions, temp : BOOLEAN]

\* str.lower on the extensions above
lower(ext) == IF ext = ".XLSX" THEN ".xlsx" ELSE ext

\* get_file_type lines 221-230
get_file_type(file) ==
    LET ext == lower(file.ext)
    IN  IF ext \in {".xlsx", ".xls", ".xlsm"} THEN "EXCEL"
        ELSE IF ext \in {".docx", ".doc"} THEN "WORD"
        ELSE IF ext \in {".pptx", ".ppt"} THEN "POWERPOINT"
        ELSE "UNKNOWN"

\* glob.glob(os.path.join(input_dir, "*" + pattern_ext)): the indices of the
\* matching files; fnmatch compares case-insensitively on Windows only
glob(dir, pattern_ext) ==
    SelectSeq([i \in 1..Len(dir) |-> i],
              LAMBDA i : \/ dir[i].ext = pattern_ext
                         \/ g_os = "nt" /\ lower(dir[i].ext) = pattern_ext)

InitEnum ==
    /\ g_os \in {"nt", "posix"}
    /\ folder \in SeqsUpTo(FolderFiles, MaxFolder)
    /\ g_files = <<>> /\ g_idx = 1 /\ g_opened = <<>>
    /\ g_successful = <<>> /\ g_failed = <<>>
    /\ g_pc = "start"
    /\ FilterIdle /\ BatchIdle /\ DocIdle /\ DirIdle /\ MainIdle /\ PathIdle
    /\ GuiIdle /\ SliceIdle /\ EngIdle /\ KeyIdle

\* lines 2414-2424: the six globs, concatenated; an empty list returns [], []
EnumGlob ==
    /\ g_pc = "start"
    /\ g_files' = glob(folder, ".xlsx") \o glob(folder, ".xls")
                    \o glob(folder, ".docx") \o glob(folder, ".doc")
                    \o glob(folder, ".pptx") \o glob(folder, ".ppt")
    /\ g_pc' = IF g_files' = <<>> THEN "returned" ELSE "loop"
    /\ UNCHANGED <<g_os, folder, g_idx, g_opened, g_successful, g_failed,
                   filterVars, batchVars, docVars, dirVars, mainVars, pathVars, guiVars, sliceVars, engVars, keyVars>>

\* lines 2450-2454 and 2470-2473: a name that starts with ~$ is skipped
EnumSkipTemp ==
    /\ g_pc = "loop" /\ g_idx <= Len(g_files)
    /\ folder[g_files[g_idx]].temp
    /\ g_idx' = g_idx + 1
    /\ UNCHANGED <<g_os, folder, g_files, g_opened, g_successful, g_failed, g_pc,
                   filterVars, batchVars, docVars, dirVars, mainVars, pathVars, guiVars, sliceVars, engVars, keyVars>>

\* lines 2456-2466 and 2475-2482: process_file, then one of the two lists
EnumProcessFile ==
    /\ g_pc = "loop" /\ g_idx <= Len(g_files)
    /\ ~folder[g_files[g_idx]].temp
    /\ g_opened' = Append(g_opened, g_files[g_idx])
    /\ \/ /\ g_successful' = Append(g_successful, g_files[g_idx])
          /\ UNCHANGED g_failed
       \/ /\ g_failed' = Append(g_failed, g_files[g_idx])
          /\ UNCHANGED g_successful
    /\ g_idx' = g_idx + 1
    /\ UNCHANGED <<g_os, folder, g_files, g_pc,
                   filterVars, batchVars, docVars, dirVars, mainVars, pathVars, guiVars, sliceVars, engVars, keyVars>>

\* line 2495: return successful_files, failed_files
EnumReturn ==
    /\ g_pc = "loop" /\ g_idx > Len(g_files)
    /\ g_pc' = "returned"
    /\ UNCHANGED <<g_os, folder, g_files, g_idx, g_opened, g_successful, g_failed,
                   filterVars, batchVars, docVars, dirVars, mainVars, pathVars, guiVars, sliceVars, engVars, keyVars>>

NextEnum == EnumGlob \/ EnumSkipTemp \/ EnumProcessFile \/ EnumReturn

SpecEnum == InitEnum /\ [][NextEnum]_vars

----------------------------------------------------------------------------
(* gui_translator.py: APIKeyDialog.save_key and check_api_status *)

MaxKeyLen == 11

KeyAlphabet == {"k", " "}

\* the text "GEMINI_API_KEY=" as one element of the file content
KeyMarker == "GEMINI_API_KEY="

NoEnvFile == [exists |-> FALSE, content |-> <<>>]

\* the first index of content that holds marker, 0 if none
RECURSIVE FindFrom(_, _, _)
FindFrom(content, marker, i) ==
    IF i > Len(content) THEN 0
    ELSE IF content[i] = marker THEN i
    ELSE FindFrom(content, marker, i + 1)

\* content.split(marker)[1]: the text between the first occurrence of
\* marker and the next one (or the end)
SplitSecond(content, marker) ==
    LET i == FindFrom(content, marker, 1)
        rest == SubSeq(content, i + 1, Len(content))
        j == FindFrom(rest, marker, 1)
    IN  IF j = 0 THEN rest ELSE SubSeq(rest, 1, j - 1)

\* check_api_status lines 227-242
check_api_status(env) ==
    /\ env.exists
    /\ FindFrom(env.content, KeyMarker, 1) > 0
    /\ Len(Strip(SplitSecond(env.content, KeyMarker))) > 10

InitKey ==
    /\ k_entry \in SeqsUpTo(KeyAlphabet, MaxKeyLen)
    /\ env_file = NoEnvFile
    /\ k_pc = "dialog"
    /\ api_status = FALSE
    /\ k_start = "none"
    /\ FilterIdle /\ BatchIdle /\ DocIdle /\ DirIdle /\ MainIdle /\ PathIdle
    /\ GuiIdle /\ SliceIdle /\ EngIdle /\ EnumIdle

\* save_key lines 499-524: an empty or short key is refused; otherwise the
\* file is written, the callback check_api_status runs and the dialog closes;
\* a failed write shows an error
save_key ==
    /\ k_pc = "dialog"
    /\ LET key == Strip(k_entry)
       IN  IF key = <<>> \/ Len(key) < 10
           THEN /\ k_pc' = "refused"
                /\ UNCHANGED <<env_file, api_status>>
           ELSE \/ /\ env_file' = [exists |-> TRUE,
                                   content |-> <<KeyMarker>> \o key \o <<"\n">>]
                   /\ api_status' = check_api_status(env_file')
                   /\ k_pc' = "saved"
                \/ /\ k_pc' = "save_failed"
                   /\ UNCHANGED <<env_file, api_status>>
    /\ UNCHANGED <<k_entry, k_start,
                   filterVars, batchVars, docVars, dirVars, mainVars, pathVars, guiVars, sliceVars, engVars, enumVars>>

\* start_translation lines 316-325, with the translation engine available:
\* without a configured key it asks for one and returns
StartAfterSave ==
    /\ k_pc = "saved"
    /\ api_status' = check_api_status(env_file)
    /\ k_start' = IF api_status' THEN "proceeds" ELSE "API Key Required"
    /\ k_pc' = "started"
    /\ UNCHANGED <<k_entry, env_file,
                   filterVars, batchVars, docVars, dirVars, mainVars, pathVars, guiVars, sliceVars, engVars, enumVars>>

NextKey == save_key \/ StartAfterSave

SpecKey == InitKey /\ [][NextKey]_vars

----------------------------------------------------------------------------
(* Claims about translate_batch and should_translate *)

AllFailed == tb_log # <<>> /\ \A i \in 1..Len(tb_log) : tb_log[i] = "fail"

\* C1: for every list of n texts and every behaviour of the capability
\* (too few, exactly n or too many segments, failures on any attempts),
\* translate_batch returns a list of exactly n elements.
C1_ResultLength == tb_pc = "done" => Len(tb_result) = Len(texts)

\* the reply of a returned call carries more segments than there are texts
C1_Witness ==
    /\ tb_pc = "done"
    /\ Len(texts) = 2
    /\ tb_log = <<"fail", "ok">>
    /\ Len(Split(ExtractContent(tb_resp))) > Len(texts)

\* C2 as stated: should_translate(s) is false exactly when the normalized s
\* has fewer than 2 characters, or s matches ^[\d\s,.-]+$, or s itself
\* starts with '='.
C2_Original ==
    st_pc = "done" =>
        (st_result = ~(\/ Len(clean_text(st_text)) < 2
                       \/ MatchesNumeric(st_text)
                       \/ StartsWithEq(st_text)))

\* C2 amended: should_translate(s) is false exactly when the normalized s
\* has fewer than 2 characters, or s matches ^[\d\s,.-]+$, or the
\* normalized s starts with '='.
C2_Eligibility ==
    st_pc = "done" =>
        (st_result = ~(\/ Len(clean_text(st_text)) < 2
                       \/ MatchesNumeric(st_text)
                       \/ StartsWithEq(clean_text(st_text))))

\* a formula behind a leading blank has been rejected
C2_Witness ==
    /\ st_pc = "done"
    /\ st_text = <<" ", "=", "a">>
    /\ st_result = FALSE

\* C3: when the first two calls fail and the third succeeds, translate_batch
\* has made exactly 3 calls, makes no further one, and has returned the
\* segments of the third reply.
C3_ThirdAttempt ==
    (Len(tb_log) >= 3 /\ SubSeq(tb_log, 1, 3) = <<"fail", "fail", "ok">>) =>
        LET segs == Split(ExtractContent(tb_resp))
        IN  /\ Len(tb_log) = 3
            /\ tb_pc = "done"
            /\ \A i \in 1..Min(Len(segs), Len(texts)) : tb_result[i] = segs[i]

\* two failures, then a reply with one segment per text
C3_Witness ==
    /\ tb_log = <<"fail", "fail", "ok">>
    /\ tb_pc = "done"
    /\ Len(texts) = 2
    /\ tb_result = <<<<"x">>, <<"x", "x">>>>

\* C4: when every call fails, translate_batch makes at most 3 retries after
\* the first attempt, then stops calling and returns the input texts
\* unchanged and in order.
C4_AllFail ==
    AllFailed =>
        /\ Len(tb_log) <= 1 + 3
        /\ (tb_pc = "done" <=> Len(tb_log) = 1 + 3)
        /\ (tb_pc = "done" => tb_result = texts)

\* four failed calls, the last of them a reply without content
C4_Witness ==
    /\ AllFailed
    /\ tb_pc = "done"
    /\ Len(tb_log) = 4
    /\ texts = <<<<"a">>, <<"b">>>>
    /\ tb_result = texts

----------------------------------------------------------------------------
(* Claims about the document processors *)

\* the slots a processor looks at: whole shapes for the basic PowerPoint
\* processor, paragraphs (cells) otherwise, and both for the multi-engine one
SeqRange(q) == {q[i] : i \in 1..Len(q)}

Slots ==
    CASE proc = "ppt_basic" -> SeqRange(ShapeLocs(doc_in))
      [] proc = "ppt_hybrid" ->
            SeqRange(ShapeLocs(doc_in)) \cup SeqRange(ParaLocs(doc_in))
      [] OTHER -> SeqRange(ParaLocs(doc_in))

IneligibleSlots == {loc \in Slots : ~should_translate(SlotText(doc_in, loc))}

NoEligibleSlot ==
    /\ proc \in {"excel", "word", "ppt_basic"}
    /\ d_pc # "setup"
    /\ \A loc \in Slots : ~should_translate(SlotText(doc_in, loc))

\* C7: a document with zero eligible fragments causes no call to the
\* translation capability and no write; unless opening or saving raises,
\* it is still saved, unchanged, and its path is returned.
C7_Passthrough ==
    NoEligibleSlot =>
        /\ sent = <<>>
        /\ wlog = {}
        /\ (d_pc = "done" /\ faults = 0) =>
              /\ d_result = "path"
              /\ saved.done
              /\ saved.content = doc_in

\* a Word document holding only "42" has been saved and reported
C7_Witness ==
    /\ NoEligibleSlot
    /\ proc = "word"
    /\ doc_in = <<Container(<<N42>>, FALSE, FALSE)>>
    /\ d_result = "path"
    /\ saved.done

\* C8 as stated: when processing returns an output path, every fragment
\* that received a non-empty translation and whose write did not fail holds
\* that translation in its slot of the saved output document.
C8_SavedHoldsTranslations ==
    d_result = "path" =>
        \A i \in 1..Len(frags) :
            (frags[i].has_tr /\ frags[i].tr # <<>> /\ frags[i].wrote /\ ~frags[i].wfail)
                => SlotText(saved.content, frags[i].loc) = frags[i].tr

\* C10 as stated: every handle opened while processing a file is closed or
\* quit when the operation that opened it has returned, on every exit path.
C10_HandlesReleased ==
    d_pc = "done" =>
        /\ res.app # "open"
        /\ (res.wb = "open" => res.app = "closed")
        /\ res.com_x_app # "open" /\ res.com_x_pres # "open"
        /\ res.com_u_app # "open" /\ res.com_u_pres # "open"

\* C9 as stated: an exception raised while one file is processed never
\* leaves the loop of process_directory; the file is recorded as failed and
\* every remaining enumerated file is still processed.
C9_NoPropagation ==
    /\ dir_pc # "raised"
    /\ dir_pc = "returned" =>
          \A i \in 1..Len(all_files) :
              ~all_files[i].temp =>
                  \/ \E k \in 1..Len(successful_files) : successful_files[k] = i
                  \/ \E k \in 1..Len(failed_files) : failed_files[k] = i

\* C11 as stated: main returns 0 when at least one file was processed
\* successfully, and 1 when no file was found or processed or when the
\* named file or directory does not exist. (The run that only creates the
\* missing default input directory is left out.)
C11_ExitCode ==
    (m_pc = "done" /\ ~(args_mode = "none" /\ ~target_exists)) =>
        LET succeeded == \/ successful_files # <<>>
                         \/ (args_mode = "file" /\ d_result = "path")
        IN  /\ ((deps_ok /\ succeeded) => exit_code = 0)
            /\ (~succeeded => exit_code = 1)
            /\ ((args_mode # "none" /\ ~target_exists) => exit_code = 1)

\* C12 as stated: every output file of a run is written inside the
\* configured output folder (--output-dir or the Output Location field when
\* given, the default output directory otherwise).
C12_InConfiguredFolder ==
    \A k \in 1..Len(written) : written[k].path.dir = ConfiguredDir

\* C13: for every input file and processor the path the output is saved to
\* differs from the path of the input file, whatever folder the input is in.
C13_NotOwnInput ==
    \A k \in 1..Len(written) :
        written[k].path # InPath(in_dir, listing[written[k].src])

\* an output of an earlier run, lying in the output folder, was processed
C13_Witness ==
    /\ in_dir = "output"
    /\ \E k \in 1..Len(written) :
          /\ listing[written[k].src].base = <<"a">> \o TranslatedSuffix
          /\ written[k].path.dir = in_dir

\* C14 as stated: within one directory run no two successfully processed
\* inputs are saved to the same output path, and no output path is the path
\* of another input file of the run.
C14_NoCollision ==
    /\ \A j, k \in 1..Len(written) :
          written[j].path = written[k].path => j = k
    /\ \A k \in 1..Len(written) : \A i \in 1..Len(listing) :
          i # written[k].src => written[k].path # InPath(in_dir, listing[i])

----------------------------------------------------------------------------
(* Further claims about translate_batch *)

LastOk == tb_log # <<>> /\ tb_log[Len(tb_log)] = "ok"

\* C15 as stated: a reply with empty content counts as a call failure; no
\* result is returned from that attempt.
C15_EmptyContentFails ==
    (tb_pc = "done" /\ LastOk) => tb_resp.content # <<>>

\* C19: when the capability returns k segments for n texts, element i of
\* the result is segment i for i < min(k, n) and original text i for
\* k <= i < n; the segments at positions >= n are discarded.
C19_PadAndTruncate ==
    (tb_pc = "done" /\ LastOk) =>
        LET segs == Split(ExtractContent(tb_resp))
        IN  /\ DOMAIN tb_result = 1..Len(texts)
            /\ \A i \in 1..Len(texts) :
                  tb_result[i] = IF i <= Len(segs) THEN segs[i] ELSE texts[i]

\* one segment came back for three texts
C19_Witness ==
    /\ tb_pc = "done" /\ LastOk
    /\ texts = <<<<"a">>, <<"b">>, <<"a">>>>
    /\ Len(Split(ExtractContent(tb_resp))) = 1
    /\ tb_result = <<<<"x">>, <<"b">>, <<"a">>>>

Failures == Cardinality({i \in 1..Len(tb_log) : tb_log[i] = "fail"})

----------------------------------------------------------------------------
(* Claims about the GUI *)

Running == {w \in 1..Len(threads) : threads[w].pc # "finished"}
InFlight == {w \in 1..Len(threads) : threads[w].pc = "in_call"}

\* C16: at any moment at most one translation worker is running and at most
\* one call to the translation capability is in flight, whatever clicks on
\* Start the user makes; a second worker starts only after the previous one
\* has finished.
C16_OneWorker ==
    /\ Cardinality(Running) <= 1
    /\ Cardinality(InFlight) <= 1
    /\ \A w \in 1..Len(threads) : w < Len(threads) => threads[w].pc = "finished"

\* a second worker is in a call after the first one finished, and the user
\* has clicked once more on the disabled button
C16_Witness ==
    /\ Len(threads) = 2
    /\ threads[1].pc = "finished"
    /\ threads[2].pc = "in_call"
    /\ clicks = 3
    /\ translate_btn = "disabled"

----------------------------------------------------------------------------
(* Further claims about the processors and process_directory *)

\* C17 as stated: in every extractor an exception raised while reading one
\* slot causes only that slot to be skipped; the document is still
\* processed, so no step of a scan ends the processing of the document.
C17_SlotFailureIsolated ==
    [][(d_pc \in {"x_scan", "w_scan", "p_scan"}) => (d_pc' # "done")]_vars

Occurrences(q, x) == Cardinality({k \in 1..Len(q) : q[k] = x})

\* C18: when process_directory returns, every enumerated file that was not
\* skipped as a temp file is exactly once in exactly one of the two lists
\* (a skipped one is in neither), and a file is put in the success list
\* exactly when its processing saved an output and returned its path.
C18_Partition ==
    /\ [](dir_pc = "returned" =>
            \A i \in 1..Len(all_files) :
                Occurrences(successful_files, i) + Occurrences(failed_files, i)
                    = IF all_files[i].temp THEN 0 ELSE 1)
    /\ [][(dir_pc = "in_file" /\ dir_pc' = "loop") =>
            /\ (successful_files' = Append(successful_files, file_idx))
                  <=> (saved.done /\ d_result = "path")
            /\ (failed_files' = Append(failed_files, file_idx))
                  <=> (~(saved.done /\ d_result = "path"))]_vars

\* a run over two files returned with one success and one failure
C18_Witness ==
    /\ dir_pc = "returned"
    /\ Len(all_files) = 2
    /\ successful_files = <<1>>
    /\ failed_files = <<2>>

----------------------------------------------------------------------------
(* Claims about batching *)

\* C21 as stated: every call to the translation capability, by any
\* processor including the multi-engine PowerPoint processor, carries at
\* most 50 texts, and the batches are consecutive slices of the fragment
\* list.
C21_BatchesOfFifty ==
    /\ \A k \in 1..Len(sl_calls) :
          /\ sl_calls[k].hi - sl_calls[k].lo + 1 <= 50
          /\ sl_calls[k].lo = IF k = 1 THEN 1 ELSE sl_calls[k - 1].hi + 1
          /\ sl_calls[k].lo <= sl_calls[k].hi
    /\ sl_cur = (IF sl_calls = <<>> THEN 1 ELSE sl_calls[Len(sl_calls)].hi + 1)

----------------------------------------------------------------------------
(* Claims about failed batches *)

\* the number of texts in the first k calls of ss
RECURSIVE SentUpTo(_, _)
SentUpTo(ss, k) == IF k = 0 THEN 0 ELSE SentUpTo(ss, k - 1) + Len(ss[k])

\* call k exhausted its retries: translate_batch returned the texts it was
\* given (lines 459-464)
Exhausted(k) ==
    \A j \in 1..Len(sent[k]) :
        LET f == frags[SentUpTo(sent, k - 1) + j]
        IN  f.has_tr /\ f.tr = sent[k][j]

BatchLoop == proc \in {"excel", "word", "ppt_basic"}

\* C22: when a batch of a document has exhausted its retries and nothing
\* else raised, the processor does not give up: once it has returned, every
\* extracted fragment was submitted, the document is saved and the result is
\* the output path.
C22_FailedBatchNotFatal ==
    (BatchLoop /\ faults = 0 /\ \E k \in 1..Len(sent) : Exhausted(k)) =>
        /\ d_result \in {"running", "path"}
        /\ (d_pc = "done") =>
              /\ SentUpTo(sent, Len(sent)) = Len(frags)
              /\ saved.done
              /\ d_result = "path"

\* a workbook of two sheets: the first sheet's batch exhausted its retries,
\* the second sheet's batch was submitted afterwards and translated, and the
\* workbook was saved
C22_Witness ==
    /\ proc = "excel" /\ d_pc = "done" /\ faults = 0
    /\ Len(sent) = 2
    /\ Exhausted(1) /\ ~Exhausted(2)
    /\ saved.done /\ d_result = "path"

----------------------------------------------------------------------------
(* Claims about the write-back *)

\* the write of fragment f on document d, if it was issued and did not raise
WriteOf(d, f) ==
    IF f.wrote /\ ~f.wfail THEN WriteSlot(d, f.loc, f.tr) ELSE d

\* the opened document after the writes of the first k fragments
DocAfter(k) == ApplyWrites(doc_in, SubSeq(frags, 1, k), 1)

\* C23 as stated: the write of one fragment leaves the slot of every other
\* extracted fragment as it was immediately before the write, in every
\* processor.
C23_WriteFrame ==
    \A k \in 1..Len(frags) : \A j \in 1..Len(frags) :
        (j # k /\ frags[k].kind # "wordart" /\ frags[j].loc # frags[k].loc) =>
            SlotText(WriteOf(DocAfter(k - 1), frags[k]), frags[j].loc)
                = SlotText(DocAfter(k - 1), frags[j].loc)

\* the same frame property for the processors whose slots are cells,
\* paragraphs or whole shapes
C23_FrameInBatchLoops == BatchLoop => C23_WriteFrame

----------------------------------------------------------------------------
(* Claims about the engine loop *)

\* C24: the engines are tried one at a time in the order of self.engines;
\* every engine before the last one tried raised or returned nothing; the
\* call returns exactly when an engine produced a result, with that result,
\* and raises "All processing engines failed" exactly when all four were
\* tried without a result; an engine whose support is missing did not open
\* the document.
C24_EngineOrder ==
    /\ Len(e_log) <= Len(engines)
    /\ \A k \in 1..Len(e_log) :
          /\ e_log[k].engine = engines[k]
          /\ (k < Len(e_log)) => e_log[k].outcome \in {"none", "raised"}
          /\ Unavailable(e_log[k].engine) => ~e_log[k].opened
    /\ (e_pc = "returned") <=>
          (e_log # <<>> /\ e_log[Len(e_log)].outcome = "path")
    /\ (e_pc = "returned") => (e_result = "path")
    /\ (e_pc = "raised") <=>
          /\ Len(e_log) = Len(engines)
          /\ \A k \in 1..Len(e_log) : e_log[k].outcome # "path"
          /\ e_idx > Len(engines)
          /\ e_result = "All processing engines failed"

\* without COM support, the first two engines produced nothing, the third
\* raised without opening the document and the fourth returned the result
C24_Witness ==
    /\ e_pc = "returned"
    /\ Len(e_log) = 4
    /\ ~e_log[3].opened /\ e_log[3].outcome = "raised"
    /\ e_log[4].opened /\ e_log[4].outcome = "path"

\* the write of fragment j is due: it has a translation that the processor
\* does not skip (lines 700, 2037, 2273, 1363)
WriteDue(j) ==
    /\ frags[j].has_tr
    /\ (proc \in {"word", "ppt_basic"}) => (frags[j].tr # <<>>)

WriteFailures == {i \in 1..Len(frags) : frags[i].wfail}

\* C25: when the write of a fragment raised and nothing else did, the
\* processor does not give up: once it has returned, every other fragment
\* whose write was due was written, the batch loops submitted every
\* fragment and hold each written text in its slot, and the document is
\* saved with the output path as the result.
C25_WriteFailureCaught ==
    (WriteFailures # {} /\ faults = Cardinality(WriteFailures)) =>
        /\ d_result \in {"running", "path"}
        /\ (d_pc = "done") =>
              /\ saved.done /\ d_result = "path"
              /\ \A j \in 1..Len(frags) : WriteDue(j) => frags[j].wrote
              /\ BatchLoop =>
                    /\ SentUpTo(sent, Len(sent)) = Len(frags)
                    /\ \A j \in 1..Len(frags) :
                          (frags[j].wrote /\ ~frags[j].wfail) =>
                              SlotText(saved.content, frags[j].loc) = frags[j].tr

\* the write of the first fragment raised, the second fragment was written
\* afterwards and the saved document holds its translation
C25_Witness ==
    /\ d_pc = "done" /\ BatchLoop
    /\ Len(frags) >= 2
    /\ frags[1].wfail
    /\ frags[2].wrote /\ ~frags[2].wfail /\ frags[2].tr # frags[2].text
    /\ saved.done
    /\ SlotText(saved.content, frags[2].loc) = frags[2].tr

\* C26 as stated: when a batch has exhausted its retries, each slot of that
\* batch holds in the saved output exactly the text it held in the input
\* document, whitespace included.
C26_PassthroughUnchanged ==
    (BatchLoop /\ d_pc = "done" /\ saved.done) =>
        \A k \in 1..Len(sent) : Exhausted(k) =>
            \A j \in 1..Len(sent[k]) :
                LET loc == frags[SentUpTo(sent, k - 1) + j].loc
                IN  SlotText(saved.content, loc) = SlotText(doc_in, loc)

----------------------------------------------------------------------------
(* Claims about the enumeration of a folder *)

\* the files of the folder that get_file_type classifies as a supported kind
\* and whose name does not start with ~$
SupportedFiles ==
    {i \in 1..Len(folder) :
        get_file_type(folder[i]) \in {"EXCEL", "WORD", "POWERPOINT"} /\ ~folder[i].temp}

\* a file whose name starts with ~$ is never handed to process_file and is in
\* neither result list
TempUntouched ==
    \A i \in 1..Len(folder) : folder[i].temp =>
        /\ i \notin SeqRange(g_opened)
        /\ i \notin SeqRange(g_successful) \cup SeqRange(g_failed)

\* C27 as stated: when process_directory has returned, the files it handed
\* to process_file are exactly the files of the folder that get_file_type
\* classifies as Excel, Word or PowerPoint and that do not start with ~$;
\* a ~$ file is never opened and is in neither result list.
C27_ExactlySupported ==
    /\ TempUntouched
    /\ (g_pc = "returned") => (SeqRange(g_opened) = SupportedFiles)

\* the part of C27 that the enumeration satisfies: only supported files
\* without the prefix are processed
C27_OnlySupported ==
    TempUntouched /\ SeqRange(g_opened) \subseteq SupportedFiles

----------------------------------------------------------------------------
(* Claims about empty translations *)

\* the fragments for which the reply yielded an empty segment
EmptySegments == {i \in 1..Len(frags) : frags[i].has_tr /\ frags[i].tr = <<>>}

\* C28 as stated: no processor writes an empty string into a slot; a
\* fragment whose segment of the reply is empty is not written and the
\* document keeps the text it had.
C28_NoEmptyOverwrite ==
    \A i \in EmptySegments :
        /\ ~frags[i].wrote
        /\ hdoc # <<>> => SlotText(hdoc, frags[i].loc) # <<>>

\* the same for the two processors that test the translation for truth
C28_TruthyProcessors ==
    (proc \in {"word", "ppt_basic"}) => C28_NoEmptyOverwrite

----------------------------------------------------------------------------
(* Claims about the API key dialog *)

\* C29 as stated: every key that save_key accepted and wrote is afterwards
\* reported as configured by check_api_status, whatever its length, and
\* start_translation then goes on to translate.
C29_SavedKeyConfigured ==
    /\ (k_pc \in {"saved", "started"}) => api_status
    /\ (k_pc = "started") => (k_start = "proceeds")

\* the statement for the keys of more than ten characters
C29_LongKeys ==
    (Len(Strip(k_entry)) > 10) => C29_SavedKeyConfigured

----------------------------------------------------------------------------
(* Claims about the Start button *)

\* C30: whenever start_translation has disabled the Start button and
\* launched a worker, the button is eventually enabled again, whether
\* process_directory returned or raised.
C30_EventuallyReenabled ==
    (translate_btn = "disabled" /\ threads # <<>>) ~> (translate_btn = "normal")

\* the worker has ended, its queued reset has run and the button is enabled
C30_Witness ==
    /\ Len(threads) = 1
    /\ threads[1].pc = "finished"
    /\ after_queue = 0
    /\ translate_btn = "normal"

====
